---- MODULE Spec2Model ----
(***************************************************************************)
(* Verification model of jira-ai-issue-solver.                             *)
(*                                                                         *)
(* Part I  : the installation-token cache of GitHubAppServiceImpl          *)
(*           (services/github_app.go), called by several goroutines.       *)
(* Part II : TicketProcessorImpl.ProcessTicket, the ticket-to-PR pipeline, *)
(*           run by several goroutines against one code host.              *)
(*                                                                         *)
(* Each part has its own specification (SpecToken, SpecPipeline); the      *)
(* variables of the other part stay at their initial values.               *)
(***************************************************************************)
EXTENDS Integers, Sequences, FiniteSets, TLC

(***************************************************************************)
(* Part I : GitHubAppServiceImpl token cache                               *)
(***************************************************************************)

\* Time is counted in minutes.  The validity buffer of the cache is the
\* literal -5*time.Minute of GetInstallationToken/refreshInstallationToken.
Buffer == 5

\* Goroutines that call GetInstallationToken.
NumGoroutines == 2
Goroutines == 1..NumGoroutines

\* Calls of GetInstallationToken made at most, over all goroutines.
MaxCalls == 3

\* The clock stops advancing at MaxTime.
MaxTime == 2

\* Lifetime (minutes) of a token whose exchange response carries expires_at.
TokenLife == 6

\* The zero value of string (tokenCache.Token after construction).
EmptyToken == 0

\* The zero value of time.Time (tokenCache.ExpiresAt after construction, and
\* the decoded expires_at of a response that lacks the field).
ZeroTime == 0

None == 0

VARIABLES
    now,        \* time.Now()
    cache,      \* tokenCache.Token, tokenCache.ExpiresAt
    readers,    \* number of goroutines holding tokenCache.mutex.RLock
    writer,     \* goroutine holding tokenCache.mutex.Lock, or None
    tpc,        \* position of each goroutine in GetInstallationToken
    ncalls,     \* calls started so far
    ret,        \* what the goroutine's current/last call returned
    slow,       \* the goroutine's current/last call left the fast path
    startEx,    \* number of exchanges completed when the call started
    lockSnap,   \* the cache as it was when the write lock was last taken
    exLog,      \* one entry per token-exchange request that was answered
    tokenResponse \* the decoded response of a refresh, between its two stores

tokenVars == <<tokenResponse, now, cache, readers, writer, tpc, ncalls, ret, slow, startEx,
               lockSnap, exLog>>

\* State of Part II (ProcessTicket runs and the code host).
VARIABLES
    forkState,            \* code host: fork of each upstream repo
    forkCalls,            \* ForkRepository invocations per upstream repo
    started,              \* ProcessTicket runs started so far
    disableErrorComments, \* config.Jira.DisableErrorComments
    prFieldName,          \* config.Jira.GitPullRequestFieldName ("" = unset)
    ppc,                  \* position of each run in ProcessTicket
    key,                  \* ticketKey
    ticket,               \* components of the fetched ticket
    summary,              \* ticket.Fields.Summary of the fetched ticket
    repoURL,              \* repoURL
    ownerRepo,            \* <<owner, repo>>
    exists,               \* exists
    forkURL,              \* forkURL
    attempt,              \* i of the readiness loop
    calls,                \* collaborator calls of the run, in order (the
                          \* checks of the readiness loop are counted in
                          \* attempt and not listed)
    result,               \* what ProcessTicket returned
    readyURL,             \* clone URL of the "exists" answer of the run
    jiraStatus            \* Jira: the status of each ticket

pipeVars == <<forkState, forkCalls, started, disableErrorComments, prFieldName,
              ppc, key, ticket, summary, repoURL, ownerRepo, exists, forkURL, attempt,
              calls, result, readyURL, jiraStatus>>

runVars == <<ppc, key, ticket, summary, repoURL, ownerRepo, exists, forkURL, attempt,
             calls, result, readyURL>>

\* State of Part III (ProcessPRReviewFeedback runs and the pull request).
VARIABLES
    fbClock,     \* time.Now() and the code host's clock, in seconds
    prItems,     \* reviews and comments of the pull request, oldest first
    fbStarted,   \* ProcessPRReviewFeedback runs started so far
    fpc,         \* position of each run in ProcessPRReviewFeedback
    fbPRURL,     \* prURL, once getPRURLFromTicket has returned it
    fbFetched,   \* prDetails: how many items the run fetched, head clone URL,
                 \* head and base branch
    fbWm,        \* lastProcessedTime
    fbListed,    \* getLastProcessingTimestamp returned no error
    fbFeedback,  \* feedback: what collectFeedback returned
    fbFiltered,  \* filteredReviews, filteredComments
    fbCalls,     \* collaborator calls of the run, in order
    fbResult,    \* what ProcessPRReviewFeedback returned
    fbBase,      \* fbRecorded as it was when the run started
    fbMaxUsed,   \* latest watermark any run has used for filtering
    fbUnmarked,  \* the last run that pushed its fixes and could not post its
                 \* marker, while no marker has been posted since
    fbPushed,    \* remote and branch of every "git push" of a run
    fbProcessed, \* items fetched by runs whose fixes were generated, committed
                 \* and pushed (a prefix of prItems)
    fbRecorded   \* items fetched by runs that succeeded and recorded their
                 \* watermark (a prefix of prItems), if there was such a run

fbRunVars == <<fpc, fbPRURL, fbFetched, fbWm, fbListed, fbFeedback, fbFiltered, fbCalls, fbResult, fbBase>>

fbVars == <<fbClock, prItems, fbStarted, fbRunVars, fbMaxUsed, fbUnmarked, fbPushed, fbProcessed,
            fbRecorded>>

\* State of Part IV (one scanner instance, its loop goroutines and the tasks
\* it dispatched).
VARIABLES
    isRunning,   \* s.isRunning
    stopChan,    \* s.stopChan: "open" or "closed"
    panicked,    \* the process died of a runtime panic
    cpc,         \* position of each caller in Start or Stop
    loops,       \* the goroutines spawned by Start, oldest first
    tasks,       \* the goroutines spawned by the scans that have not ended
    scans,       \* searches that returned tickets so far
    startCalls,  \* Start calls so far
    stopCalls,   \* Stop calls so far
    overlapped,  \* two calls of Start/Stop were in progress at the same time
    closeLog     \* one entry per executed close(s.stopChan)

scVars == <<isRunning, stopChan, panicked, cpc, loops, tasks, scans,
            startCalls, stopCalls, overlapped, closeLog>>

\* State of Part V (one call of ExtractRepoInfo).
VARIABLES
    exIn,        \* the repository URL passed, as its shape, owner and repository
    exOut        \* what the call returned, once it has

exVars == <<exIn, exOut>>

vars == <<tokenVars, pipeVars, fbVars, scVars, exVars>>

\* What the actions of one part leave unchanged.
notTokenVars == <<pipeVars, fbVars, scVars, exVars>>
notPipeVars == <<tokenVars, fbVars, scVars, exVars>>
notFbVars == <<tokenVars, pipeVars, scVars, exVars>>
notScVars == <<tokenVars, pipeVars, fbVars, exVars>>
notExVars == <<tokenVars, pipeVars, fbVars, scVars>>

NoRet == [kind |-> "none", tok |-> EmptyToken, exp |-> ZeroTime]

\* (token, nil), with the expiry the token has.
OkRet(kind, tok, exp) == [kind |-> kind, tok |-> tok, exp |-> exp]

\* ("", err)
ErrRet == [kind |-> "error", tok |-> EmptyToken, exp |-> ZeroTime]

\* time.Now().Before(ExpiresAt.Add(-5*time.Minute))
BeforeBuffer(t, expiresAt) == t < expiresAt - Buffer

\* github_app.go:81, the condition of the fast path (under RLock).
FastPathInverted(c, t) == c.Token # EmptyToken /\ ~BeforeBuffer(t, c.ExpiresAt)
FastPathValid(c, t) == c.Token # EmptyToken /\ BeforeBuffer(t, c.ExpiresAt)

\* github_app.go:100, the double check (under Lock).
DoubleCheckMissing(c, t) == FALSE
DoubleCheckValid(c, t) == c.Token # EmptyToken /\ BeforeBuffer(t, c.ExpiresAt)

\* Outcomes of s.client.Do + status check + Decode (github_app.go:121-139).
ExchangeOutcomes == {"transport", "status", "decode", "ok"}

\* expires_at of a response: present (now + TokenLife) or absent (zero time).
ResponseExpiries(t) == {ZeroTime, t + TokenLife}

\* github_app.go:142-143: the cache after the exchange was answered.
CacheStoredBeforeDecodeCheck(c, outcome, tok, exp) ==
    IF outcome \in {"ok", "decode"} THEN [Token |-> tok, ExpiresAt |-> exp] ELSE c
CacheAfterExchange(c, outcome, tok, exp) ==
    IF outcome = "ok" THEN [Token |-> tok, ExpiresAt |-> exp] ELSE c

InitToken ==
    /\ now = 0
    /\ cache = [Token |-> EmptyToken, ExpiresAt |-> ZeroTime]
    /\ readers = 0
    /\ writer = None
    /\ tpc = [g \in Goroutines |-> "idle"]
    /\ ncalls = 0
    /\ ret = [g \in Goroutines |-> NoRet]
    /\ slow = [g \in Goroutines |-> FALSE]
    /\ startEx = [g \in Goroutines |-> 0]
    /\ lockSnap = cache
    /\ exLog = <<>>
    /\ tokenResponse = [g \in Goroutines |-> [Token |-> EmptyToken, ExpiresAt |-> ZeroTime]]

\* The clock advances.
Tick ==
    /\ now < MaxTime
    /\ now' = now + 1
    /\ UNCHANGED <<cache, readers, writer, tpc, ncalls, ret, slow, startEx,
                   lockSnap, exLog, tokenResponse>>
    /\ UNCHANGED notTokenVars

\* GetInstallationToken is called; s.tokenCache.mutex.RLock() (line 80).
RLock(g) ==
    /\ tpc[g] = "idle"
    /\ ncalls < MaxCalls
    /\ writer = None
    /\ readers' = readers + 1
    /\ tpc' = [tpc EXCEPT ![g] = "rlocked"]
    /\ ncalls' = ncalls + 1
    /\ ret' = [ret EXCEPT ![g] = NoRet]
    /\ slow' = [slow EXCEPT ![g] = FALSE]
    /\ startEx' = [startEx EXCEPT ![g] = Len(exLog)]
    /\ UNCHANGED <<now, cache, writer, lockSnap, exLog, tokenResponse>>
    /\ UNCHANGED notTokenVars

\* Lines 81-87: the fast path returns the cached token, or gives up the read
\* lock and goes on to refreshInstallationToken.
FastCheck(g) ==
    /\ tpc[g] = "rlocked"
    /\ readers' = readers - 1
    /\ IF FastPathValid(cache, now)
       THEN /\ ret' = [ret EXCEPT ![g] = OkRet("fast", cache.Token, cache.ExpiresAt)]
            /\ tpc' = [tpc EXCEPT ![g] = "idle"]
            /\ UNCHANGED slow
       ELSE /\ tpc' = [tpc EXCEPT ![g] = "wantLock"]
            /\ slow' = [slow EXCEPT ![g] = TRUE]
            /\ UNCHANGED ret
    /\ UNCHANGED <<now, cache, writer, ncalls, startEx, lockSnap, exLog, tokenResponse>>
    /\ UNCHANGED notTokenVars

\* Line 96: s.tokenCache.mutex.Lock().
LockWithoutExclusion(g) ==
    /\ tpc[g] = "wantLock"
    /\ tpc' = [tpc EXCEPT ![g] = "locked"]
    /\ lockSnap' = cache
    /\ UNCHANGED <<now, cache, readers, writer, ncalls, ret, slow, startEx, exLog, tokenResponse>>
    /\ UNCHANGED notTokenVars
Lock(g) ==
    /\ tpc[g] = "wantLock"
    /\ readers = 0
    /\ writer = None
    /\ writer' = g
    /\ tpc' = [tpc EXCEPT ![g] = "locked"]
    /\ lockSnap' = cache
    /\ UNCHANGED <<now, cache, readers, ncalls, ret, slow, startEx, exLog, tokenResponse>>
    /\ UNCHANGED notTokenVars

\* Lines 99-102: the double check; a valid cache is returned (the deferred
\* Unlock runs), a stale one leads to the refresh.
ReCheck(g) ==
    /\ tpc[g] = "locked"
    /\ IF DoubleCheckValid(cache, now)
       THEN /\ ret' = [ret EXCEPT ![g] = OkRet("recheck", cache.Token, cache.ExpiresAt)]
            /\ tpc' = [tpc EXCEPT ![g] = "idle"]
            /\ writer' = None
       ELSE /\ tpc' = [tpc EXCEPT ![g] = "sign"]
            /\ UNCHANGED <<ret, writer>>
    /\ UNCHANGED <<now, cache, readers, ncalls, slow, startEx, lockSnap, exLog, tokenResponse>>
    /\ UNCHANGED notTokenVars

\* Lines 105-121: GetAppToken signs the assertion; on success the request is
\* sent, on failure the call returns the error.
Sign(g) ==
    /\ tpc[g] = "sign"
    /\ \E signed \in BOOLEAN :
         IF signed
         THEN /\ tpc' = [tpc EXCEPT ![g] = "exchange"]
              /\ UNCHANGED <<ret, writer>>
         ELSE /\ ret' = [ret EXCEPT ![g] = ErrRet]
              /\ tpc' = [tpc EXCEPT ![g] = "idle"]
              /\ writer' = None
    /\ UNCHANGED <<now, cache, readers, ncalls, slow, startEx, lockSnap, exLog, tokenResponse>>
    /\ UNCHANGED notTokenVars

\* Lines 121-142: the exchange is answered; anything but a decoded response
\* is returned as an error, a decoded one is kept in tokenResponse and its
\* token is stored in the cache (line 142).
Exchange(g) ==
    /\ tpc[g] = "exchange"
    /\ \E outcome \in ExchangeOutcomes, exp \in ResponseExpiries(now),
          tok \in {EmptyToken, Len(exLog) + 1} :
         /\ outcome # "ok" => (tok = EmptyToken /\ exp = ZeroTime)
         /\ cache' = [cache EXCEPT
                        !.Token = CacheAfterExchange(cache, outcome, tok, exp).Token]
         /\ exLog' = Append(exLog, [ok |-> outcome = "ok", tok |-> tok, exp |-> exp])
         /\ IF outcome = "ok"
            THEN /\ tokenResponse' = [tokenResponse EXCEPT
                                        ![g] = [Token |-> tok, ExpiresAt |-> exp]]
                 /\ tpc' = [tpc EXCEPT ![g] = "storeExpiry"]
                 /\ UNCHANGED <<ret, writer>>
            ELSE /\ ret' = [ret EXCEPT ![g] = ErrRet]
                 /\ tpc' = [tpc EXCEPT ![g] = "idle"]
                 /\ writer' = None
                 /\ UNCHANGED tokenResponse
    /\ UNCHANGED <<now, readers, ncalls, slow, startEx, lockSnap>>
    /\ UNCHANGED notTokenVars

\* Lines 143-145: the expiry of the response is stored in the cache, the
\* token is returned and the deferred Unlock runs.
StoreExpiry(g) ==
    /\ tpc[g] = "storeExpiry"
    /\ cache' = [cache EXCEPT
                   !.ExpiresAt = CacheAfterExchange(cache, "ok", tokenResponse[g].Token,
                                                    tokenResponse[g].ExpiresAt).ExpiresAt]
    /\ ret' = [ret EXCEPT ![g] = OkRet("fresh", tokenResponse[g].Token,
                                       tokenResponse[g].ExpiresAt)]
    /\ tokenResponse' = [tokenResponse EXCEPT
                            ![g] = [Token |-> EmptyToken, ExpiresAt |-> ZeroTime]]
    /\ tpc' = [tpc EXCEPT ![g] = "idle"]
    /\ writer' = None
    /\ UNCHANGED <<now, readers, ncalls, slow, startEx, lockSnap, exLog>>
    /\ UNCHANGED notTokenVars


(***************************************************************************)
(* Part II : TicketProcessorImpl.ProcessTicket                             *)
(***************************************************************************)

\* Strings that the code parses are sequences of characters.
HttpsPrefix == <<"h","t","t","p","s",":","/","/","g","i","t","h","u","b",".","c","o","m","/">>
SshPrefix == <<"g","i","t","@","g","i","t","h","u","b",".","c","o","m",":">>
GitSuffix == <<".","g","i","t">>

\* strings.HasPrefix / TrimPrefix / HasSuffix / TrimSuffix
HasPrefix(s, p) == Len(s) >= Len(p) /\ SubSeq(s, 1, Len(p)) = p
TrimPrefix(s, p) == IF HasPrefix(s, p) THEN SubSeq(s, Len(p) + 1, Len(s)) ELSE s
HasSuffix(s, p) == Len(s) >= Len(p) /\ SubSeq(s, Len(s) - Len(p) + 1, Len(s)) = p
TrimSuffix(s, p) == IF HasSuffix(s, p) THEN SubSeq(s, 1, Len(s) - Len(p)) ELSE s

\* strings.Split(s, sep) for a one-character separator: the pieces between
\* the separators, empty pieces included.
RECURSIVE SplitFrom(_, _, _, _)
SplitFrom(s, sep, i, cur) ==
    IF i > Len(s) THEN <<cur>>
    ELSE IF s[i] = sep THEN <<cur>> \o SplitFrom(s, sep, i + 1, <<>>)
    ELSE SplitFrom(s, sep, i + 1, Append(cur, s[i]))
Split(s, sep) == SplitFrom(s, sep, 1, <<>>)

NoRepo == [err |-> TRUE, owner |-> <<>>, repo |-> <<>>]

\* ExtractRepoInfo without the removal of the ".git" suffix.
ExtractRepoInfoKeepingSuffix(url) ==
    IF HasPrefix(url, SshPrefix)
    THEN LET parts == Split(TrimPrefix(url, SshPrefix), "/")
         IN IF Len(parts) < 2 THEN NoRepo
            ELSE [err |-> FALSE, owner |-> parts[1], repo |-> parts[2]]
    ELSE IF HasPrefix(url, HttpsPrefix)
    THEN LET parts == Split(TrimPrefix(url, HttpsPrefix), "/")
         IN IF Len(parts) < 2 THEN NoRepo
            ELSE [err |-> FALSE, owner |-> parts[1], repo |-> parts[2]]
    ELSE NoRepo

\* github.go:660-684
ExtractRepoInfo(url) ==
    IF HasPrefix(url, SshPrefix)
    THEN LET parts == Split(TrimPrefix(url, SshPrefix), "/")
         IN IF Len(parts) < 2 THEN NoRepo
            ELSE [err |-> FALSE, owner |-> parts[1], repo |-> TrimSuffix(parts[2], GitSuffix)]
    ELSE IF HasPrefix(url, HttpsPrefix)
    THEN LET parts == Split(TrimPrefix(url, HttpsPrefix), "/")
         IN IF Len(parts) < 2 THEN NoRepo
            ELSE [err |-> FALSE, owner |-> parts[1], repo |-> TrimSuffix(parts[2], GitSuffix)]
    ELSE NoRepo

\* Configuration (models.Config) used by the pipeline.
UrlHttps == HttpsPrefix \o <<"o", "/", "r">> \o GitSuffix
UrlSsh == SshPrefix \o <<"o", "/", "r">> \o GitSuffix
UrlUnsupported == <<"f","t","p",":","/","/","o","/","r">>
\* c1, c4: the same repository; c2: an empty mapping; c3: no mapping at all;
\* c5: a URL that ExtractRepoInfo rejects.
ComponentToRepo ==
    [c \in {"c1", "c2", "c4", "c5"} |->
        CASE c = "c1" -> UrlHttps
          [] c = "c2" -> <<>>
          [] c = "c4" -> UrlSsh
          [] c = "c5" -> UrlUnsupported]
StatusTodo == "To Do"
StatusInProgress == "In Progress"
StatusInReview == "In Review"
BotUsername == "bot"
TargetBranch == "main"
TempDir == "/tmp"

\* Component lists a fetched ticket may carry (ticket.Fields.Components).
ComponentLists ==
    {<<>>, <<"c1", "c3">>, <<"c4">>, <<"c5">>, <<"c2", "c1">>, <<"c3", "c1">>}

Keys == {"K1", "K2"}

\* The summary each ticket has in Jira (ticket.Fields.Summary).
Summaries == [k \in Keys |-> IF k = "K1" THEN "Test ticket" ELSE "a: b"]

\* jira_issue_scanner.go:93-98: the tickets the scanner's query returns, those
\* in the todo status.
SearchTodo == {k \in Keys : jiraStatus[k] = StatusTodo}

\* Pipelines that can be in flight at the same time.
Runs == {"a", "b"}

\* ProcessTicket runs started at most, over all of Runs.
MaxRuns == 2

\* github... part_000:105, the attempts of the fork-readiness loop.
MaxForkAttempts == 10

\* The upstream repositories and the clone URLs the code host can answer.
TheRepo == <<<<"o">>, <<"r">>>>
RepoRefs == {TheRepo}
ForkCloneURL == "fork-clone-url"
PRHeadRef == "pr-branch"
ForkResponseURL == "fork-response-url"

NoResult == [done |-> FALSE, err |-> FALSE, msg |-> ""]
Success == [done |-> TRUE, err |-> FALSE, msg |-> ""]
Failure(msg) == [done |-> TRUE, err |-> TRUE, msg |-> msg]

CallRec(op, arg) == [op |-> op, arg |-> arg]

\* part_000:234-245: the failure comment, unless error comments are disabled.
HandleFailureIgnoringConfig(log, k, msg) ==
    Append(log, CallRec("AddComment", <<k, "AI failed to process this ticket", msg>>))
HandleFailure(log, k, msg) ==
    IF ~disableErrorComments
    THEN Append(log, CallRec("AddComment", <<k, "AI failed to process this ticket", msg>>))
    ELSE log

\* No run has started; the configuration is given.
PipelineAtStart(disabled, fieldName) ==
    /\ forkState = [x \in RepoRefs |-> "absent"]
    /\ forkCalls = [x \in RepoRefs |-> 0]
    /\ started = 0
    /\ disableErrorComments = disabled
    /\ prFieldName = fieldName
    /\ ppc = [r \in Runs |-> "idle"]
    /\ key = [r \in Runs |-> "K1"]
    /\ ticket = [r \in Runs |-> <<>>]
    /\ summary = [r \in Runs |-> ""]
    /\ repoURL = [r \in Runs |-> <<>>]
    /\ ownerRepo = [r \in Runs |-> <<<<>>, <<>>>>]
    /\ exists = [r \in Runs |-> FALSE]
    /\ forkURL = [r \in Runs |-> ""]
    /\ attempt = [r \in Runs |-> 0]
    /\ calls = [r \in Runs |-> <<>>]
    /\ result = [r \in Runs |-> NoResult]
    /\ readyURL = [r \in Runs |-> ""]
    /\ jiraStatus = [k \in Keys |-> StatusTodo]

InitPipeline ==
    \E disabled \in BOOLEAN, fieldName \in {"", "Git Pull Request"} :
        PipelineAtStart(disabled, fieldName)

\* A failure that also writes a status to the ticket.
FailWithStatusUpdate(r, log, msg) ==
    /\ calls' = [calls EXCEPT ![r] =
                   HandleFailure(Append(log, CallRec("UpdateTicketStatus", <<key[r], "Failed">>)),
                                 key[r], msg)]
    /\ result' = [result EXCEPT ![r] = Failure(msg)]
    /\ ppc' = [ppc EXCEPT ![r] = "done"]

\* A step of a run that ends ProcessTicket with an error: the failed call is
\* in the log, handleFailure has run.
FailWith(r, log, msg) ==
    /\ calls' = [calls EXCEPT ![r] = HandleFailure(log, key[r], msg)]
    /\ result' = [result EXCEPT ![r] = Failure(msg)]
    /\ ppc' = [ppc EXCEPT ![r] = "done"]

\* A step of a run that goes on to the position next.
GoOn(r, log, next) ==
    /\ calls' = [calls EXCEPT ![r] = log]
    /\ ppc' = [ppc EXCEPT ![r] = next]
    /\ UNCHANGED result

\* A scan that leaves out the tickets whose pipeline is in flight.
IssuesNotInFlight ==
    {k \in SearchTodo : \A q \in Runs : ppc[q] \notin {"idle", "done"} => key[q] # k}

\* jira_issue_scanner.go:93-118: the issues a scan dispatches are the ones
\* its search returns, the tickets in the todo status.
IssuesOfScan == SearchTodo

\* go s.ticketProcessor.ProcessTicket(issue.Key): a run starts on a free
\* goroutine for an issue of a scan.
StartRun(r, k) ==
    /\ ppc[r] \in {"idle", "done"}
    /\ started < MaxRuns
    /\ k \in IssuesOfScan
    /\ started' = started + 1
    /\ ppc' = [ppc EXCEPT ![r] = "getTicket"]
    /\ key' = [key EXCEPT ![r] = k]
    /\ ticket' = [ticket EXCEPT ![r] = <<>>]
    /\ summary' = [summary EXCEPT ![r] = ""]
    /\ repoURL' = [repoURL EXCEPT ![r] = <<>>]
    /\ ownerRepo' = [ownerRepo EXCEPT ![r] = <<<<>>, <<>>>>]
    /\ exists' = [exists EXCEPT ![r] = FALSE]
    /\ forkURL' = [forkURL EXCEPT ![r] = ""]
    /\ attempt' = [attempt EXCEPT ![r] = 0]
    /\ calls' = [calls EXCEPT ![r] = <<>>]
    /\ result' = [result EXCEPT ![r] = NoResult]
    /\ readyURL' = [readyURL EXCEPT ![r] = ""]
    /\ UNCHANGED <<forkState, forkCalls, disableErrorComments, prFieldName, jiraStatus>>
    /\ UNCHANGED notPipeVars

\* part_000:46-68: fetch the ticket and resolve the repository of its first
\* component.
\* line 61: the component that is looked up.
LastComponent(comps) == comps[Len(comps)]
FirstComponent(comps) == comps[1]

\* line 62: p.config.ComponentToRepo[name]; a missing key gives "".
MappedRepo(name) == IF name \in DOMAIN ComponentToRepo THEN ComponentToRepo[name] ELSE <<>>

\* line 63: !(!ok || repoURL == "")
HasMapping(comps) ==
    FirstComponent(comps) \in DOMAIN ComponentToRepo /\ MappedRepo(FirstComponent(comps)) # <<>>

GetTicket(r) ==
    /\ ppc[r] = "getTicket"
    /\ LET log == Append(calls[r], CallRec("GetTicket", key[r]))
       IN \/ /\ FailWith(r, log, "Failed to get ticket details")
             /\ UNCHANGED <<ticket, summary, repoURL>>
          \/ \E comps \in ComponentLists :
                /\ ticket' = [ticket EXCEPT ![r] = comps]
                /\ summary' = [summary EXCEPT ![r] = Summaries[key[r]]]
                /\ IF Len(comps) = 0
                   THEN /\ FailWith(r, log, "No components found on ticket")
                        /\ UNCHANGED repoURL
                   ELSE IF ~HasMapping(comps)
                   THEN /\ FailWith(r, log, "No repository mapping found for component")
                        /\ UNCHANGED repoURL
                   ELSE /\ GoOn(r, log, "statusInProgress")
                        /\ repoURL' = [repoURL EXCEPT ![r] = MappedRepo(FirstComponent(comps))]
    /\ UNCHANGED <<forkState, forkCalls, started, disableErrorComments, prFieldName, jiraStatus,
                   key, ownerRepo, exists, forkURL, attempt, readyURL>>
    /\ UNCHANGED notPipeVars

\* The outcome of jiraService.UpdateTicketStatus for the ticket of a run:
\* the ticket has the status, or the call returned an error, which
\* ProcessTicket only logs.
UpdateTicketStatus(r, status, updated) ==
    jiraStatus' = IF updated THEN [jiraStatus EXCEPT ![key[r]] = status] ELSE jiraStatus

\* part_000:70-84: the best-effort status update, then ExtractRepoInfo.
UpdateStatusInProgress(r) ==
    /\ ppc[r] = "statusInProgress"
    /\ LET log == Append(calls[r], CallRec("UpdateTicketStatus", <<key[r], StatusInProgress>>))
           info == ExtractRepoInfo(repoURL[r])
       IN \E updated \in BOOLEAN :
            /\ UpdateTicketStatus(r, StatusInProgress, updated)
            /\ IF info.err
               THEN /\ FailWith(r, log, "Failed to extract repo info")
                    /\ UNCHANGED ownerRepo
               ELSE /\ GoOn(r, log, "checkFork")
                    /\ ownerRepo' = [ownerRepo EXCEPT ![r] = <<info.owner, info.repo>>]
    /\ UNCHANGED <<forkState, forkCalls, started, disableErrorComments, prFieldName,
                   key, ticket, summary, repoURL, exists, forkURL, attempt, readyURL>>
    /\ UNCHANGED notPipeVars


\* services/github.go:376-440 as seen by the caller: an error answers
\* (false, "", err); otherwise the fork is reported with its clone URL when
\* the code host has it ready.
CheckAnswers(x) ==
    {[err |-> TRUE, exists |-> FALSE, url |-> ""]}
    \cup (IF forkState[x] = "ready"
          THEN {[err |-> FALSE, exists |-> TRUE, url |-> ForkCloneURL]}
          ELSE {[err |-> FALSE, exists |-> FALSE, url |-> ""]})

\* part_000:87-94: the first existence check.
CheckForkExists(r) ==
    /\ ppc[r] = "checkFork"
    /\ LET log == Append(calls[r], CallRec("CheckForkExists", ownerRepo[r]))
       IN \E a \in CheckAnswers(ownerRepo[r]) :
            /\ IF a.err
               THEN /\ FailWith(r, log, "Failed to check if fork exists")
                    /\ UNCHANGED <<exists, forkURL, readyURL>>
               ELSE /\ exists' = [exists EXCEPT ![r] = a.exists]
                    /\ forkURL' = [forkURL EXCEPT ![r] = a.url]
                    /\ readyURL' = [readyURL EXCEPT ![r] = a.url]
                    /\ GoOn(r, log, IF a.exists THEN "clone" ELSE "fork")
    /\ UNCHANGED <<forkState, forkCalls, started, disableErrorComments, prFieldName, jiraStatus,
                   key, ticket, summary, repoURL, ownerRepo, attempt>>
    /\ UNCHANGED notPipeVars

\* part_000:96-102: create the fork.  The code host starts creating it (an
\* existing fork is left as it is).
ForkRepository(r) ==
    /\ ppc[r] = "fork"
    /\ LET x == ownerRepo[r]
           log == Append(calls[r], CallRec("ForkRepository", x))
       IN /\ forkCalls' = [forkCalls EXCEPT ![x] = @ + 1]
          /\ \/ /\ FailWith(r, log, "Failed to create fork")
                /\ UNCHANGED <<forkState, forkURL, attempt>>
             \/ /\ GoOn(r, log, "poll")
                /\ forkURL' = [forkURL EXCEPT ![r] = ForkResponseURL]
                /\ attempt' = [attempt EXCEPT ![r] = 0]
                /\ forkState' = [forkState EXCEPT ![x] = IF @ = "absent" THEN "creating" ELSE @]
    /\ UNCHANGED <<started, disableErrorComments, prFieldName, jiraStatus, key, ticket, summary, repoURL,
                   ownerRepo, exists, readyURL>>
    /\ UNCHANGED notPipeVars

\* The code host finishes creating a fork.
ForkBecomesReady(x) ==
    /\ forkState[x] = "creating"
    /\ forkState' = [forkState EXCEPT ![x] = "ready"]
    /\ UNCHANGED <<forkCalls, started, disableErrorComments, prFieldName, jiraStatus, runVars>>
    /\ UNCHANGED notPipeVars

\* line 105: the loop condition, tested after i++.
PollAgainOffByOne(i) == i <= MaxForkAttempts
PollAgain(i) == i < MaxForkAttempts

\* line 106: exists, forkURL, err = CheckForkExists(...) assigns the
\* variables of the enclosing scope.
PolledShadowed(answered, current) == current
Polled(answered, current) == answered

\* part_000:105-126: one attempt of the readiness loop; after the last
\* attempt the run fails when the fork is still not there.  The loop
\* variable i is attempt: it is cleared when the loop is left by break.
PollFork(r) ==
    /\ ppc[r] = "poll"
    /\ \E a \in CheckAnswers(ownerRepo[r]) :
         LET found == Polled(a.exists, exists[r])
         IN /\ exists' = [exists EXCEPT ![r] = found]
            /\ forkURL' = [forkURL EXCEPT ![r] = Polled(a.url, @)]
            /\ readyURL' = [readyURL EXCEPT ![r] = IF a.exists THEN a.url ELSE @]
            /\ IF ~a.err /\ found
               THEN /\ GoOn(r, calls[r], "clone")
                    /\ attempt' = [attempt EXCEPT ![r] = 0]
               ELSE /\ attempt' = [attempt EXCEPT ![r] = @ + 1]
                    /\ IF PollAgain(attempt[r] + 1)
                       THEN GoOn(r, calls[r], "poll")
                       ELSE FailWith(r, calls[r], "Fork failed to become ready after multiple attempts")
    /\ UNCHANGED <<forkState, forkCalls, started, disableErrorComments, prFieldName, jiraStatus,
                   key, ticket, summary, repoURL, ownerRepo>>
    /\ UNCHANGED notPipeVars

\* A collaborator call whose error aborts the run.
HardStep(r, at, op, arg, next, msg) ==
    /\ ppc[r] = at
    /\ LET log == Append(calls[r], CallRec(op, arg))
       IN \/ FailWith(r, log, msg)
          \/ GoOn(r, log, next)
    /\ UNCHANGED <<forkState, forkCalls, started, disableErrorComments, prFieldName, jiraStatus,
                   key, ticket, summary, repoURL, ownerRepo, exists, forkURL, attempt,
                   readyURL>>
    /\ UNCHANGED notPipeVars

\* A best-effort call whose error would end the run like that of a hard step.
BestEffortStepAborting(r, at, op, arg, next) ==
    /\ ppc[r] = at
    /\ LET log == Append(calls[r], CallRec(op, arg))
       IN \/ FailWith(r, log, "Failed to update ticket")
          \/ GoOn(r, log, next)
    /\ UNCHANGED <<forkState, forkCalls, started, disableErrorComments, prFieldName, jiraStatus,
                   key, ticket, summary, repoURL, ownerRepo, exists, forkURL, attempt,
                   readyURL>>
    /\ UNCHANGED notPipeVars

\* A collaborator call whose error is only logged.
BestEffortStep(r, at, op, arg, next) ==
    /\ ppc[r] = at
    /\ \E failed \in BOOLEAN : GoOn(r, Append(calls[r], CallRec(op, arg)), next)
    /\ UNCHANGED <<forkState, forkCalls, started, disableErrorComments, prFieldName, jiraStatus,
                   key, ticket, summary, repoURL, ownerRepo, exists, forkURL, attempt,
                   readyURL>>
    /\ UNCHANGED notPipeVars

\* line 130
RepoDir(r) == <<TempDir, key[r]>>

\* line 147
BranchName(r) == key[r]

\* lines 174 and 190: fmt.Sprintf("%s: %s", ticketKey, ticket.Fields.Summary)
CommitMessage(k, s) == k \o ": " \o s
PRTitle(k, s) == k \o ": " \o s

\* line 195: fmt.Sprintf("%s:%s", p.config.GitHub.BotUsername, branchName)
PRHeadBranchOnly(bot, branch) == branch
PRHead(bot, branch) == bot \o ":" \o branch

\* The clone followed at once by the code generation.
CloneThenGenerate(r) ==
    HardStep(r, "clone", "CloneRepository", <<forkURL[r], RepoDir(r)>>, "docs",
             "Failed to clone repository")

\* lines 129-136
CloneRepository(r) ==
    HardStep(r, "clone", "CloneRepository", <<forkURL[r], RepoDir(r)>>, "switch",
             "Failed to clone repository")

\* lines 138-144
SwitchToTargetBranch(r) ==
    HardStep(r, "switch", "SwitchToTargetBranch", <<RepoDir(r)>>, "branch",
             "Failed to switch to target branch")

\* lines 146-153
CreateBranch(r) ==
    HardStep(r, "branch", "CreateBranch", <<RepoDir(r), BranchName(r)>>, "docs",
             "Failed to create branch")

\* lines 155-160
GenerateDocumentation(r) ==
    BestEffortStep(r, "docs", "GenerateDocumentation", <<RepoDir(r)>>, "generate")

\* lines 162-171
GenerateCode(r) ==
    HardStep(r, "generate", "GenerateCode", <<key[r], RepoDir(r)>>, "commit",
             "Failed to generate code changes")

\* lines 173-179
CommitChanges(r) ==
    HardStep(r, "commit", "CommitChanges",
             <<RepoDir(r), CommitMessage(key[r], summary[r])>>, "push",
             "Failed to commit changes")

\* lines 181-187
PushChanges(r) ==
    HardStep(r, "push", "PushChanges", <<RepoDir(r), BranchName(r)>>, "createPR",
             "Failed to push changes")

\* lines 189-204: the pull request; the field update follows only when a
\* field name is configured.
CreatePullRequest(r) ==
    HardStep(r, "createPR", "CreatePullRequest",
             <<ownerRepo[r], PRTitle(key[r], summary[r]),
               PRHead(BotUsername, BranchName(r)), TargetBranch>>,
             IF prFieldName # "" THEN "prField" ELSE "prComment",
             "Failed to create pull request")

\* lines 204-212
UpdateTicketFieldByName(r) ==
    BestEffortStep(r, "prField", "UpdateTicketFieldByName", <<key[r], prFieldName>>, "prComment")

\* lines 214-220
AddComment(r) ==
    BestEffortStep(r, "prComment", "AddComment", <<key[r], "AI has created a pull request">>,
                   "statusInReview")

\* line 223: the status written after the pull request exists.
FinalStatusCopyPaste == StatusInProgress
FinalStatus == StatusInReview

\* lines 222-230
UpdateStatusInReview(r) ==
    /\ ppc[r] = "statusInReview"
    /\ \E updated \in BOOLEAN :
         /\ UpdateTicketStatus(r, FinalStatus, updated)
         /\ calls' = [calls EXCEPT ![r] =
                        Append(@, CallRec("UpdateTicketStatus", <<key[r], FinalStatus>>))]
         /\ result' = [result EXCEPT ![r] = Success]
         /\ ppc' = [ppc EXCEPT ![r] = "done"]
    /\ UNCHANGED <<forkState, forkCalls, started, disableErrorComments, prFieldName,
                   key, ticket, summary, repoURL, ownerRepo, exists, forkURL, attempt,
                   readyURL>>
    /\ UNCHANGED notPipeVars

(***************************************************************************)
(* Part III : PRReviewProcessorImpl.ProcessPRReviewFeedback                *)
(***************************************************************************)

\* The goroutine on which the feedback runs for the one pull request of the
\* ticket follow each other.
FbRuns == {"p"}

\* ProcessPRReviewFeedback runs started at most, over all of FbRuns.
MaxFbRuns == 3

\* The clock counts whole seconds, as the RFC3339 marker and the code host's
\* timestamps do; it starts after the zero time and stops at MaxFbTime.
MaxFbTime == 2

\* A comment body without the marker text.
NoMark == 0

Reviewer == "alice"

\* A review or a comment: its author (User.Login), its review state or
\* "comment", its timestamp (SubmittedAt / CreatedAt) and the timestamp of
\* the marker text in its body, if any.
Item(author, kind, at, mark) == [author |-> author, kind |-> kind, at |-> at, mark |-> mark]

\* The timestamp of the marker text in a comment written by a reviewer:
\* later than any marker of a run.
ForgedMark == MaxFbTime + 1

\* What reviewers, and the bot account, can add to the pull request; a
\* reviewer's comment may contain the marker text.
FeedbackChoices ==
    {[author |-> Reviewer, kind |-> k, mark |-> NoMark] :
        k \in {"CHANGES_REQUESTED", "APPROVED", "comment"}}
    \cup {[author |-> BotUsername, kind |-> "CHANGES_REQUESTED", mark |-> NoMark],
          [author |-> Reviewer, kind |-> "comment", mark |-> ForgedMark]}

IsReview(e) == e.kind # "comment"
IsComment(e) == e.kind = "comment"

\* prDetails.Reviews and prDetails.Comments / ListPRComments of a list of items.
Reviews(items) == SelectSeq(items, IsReview)
Comments(items) == SelectSeq(items, IsComment)

\* time.Time.After
After(t, u) == t > u

\* strings.ToLower on the review states of the code host.
ToLower(state) ==
    CASE state = "CHANGES_REQUESTED" -> "changes_requested"
      [] state = "APPROVED" -> "approved"
      [] OTHER -> state

\* pr_review_processor.go:195-202
HasAnyReviews(reviews) == Len(reviews) > 0
HasRequestChangesReviews(reviews) ==
    \E i \in DOMAIN reviews : ToLower(reviews[i].kind) = "changes_requested"

\* pr_review_processor.go:389-407
FilterReviewsAtOrAfter(reviews, lastProcessedTime) ==
    SelectSeq(reviews, LAMBDA review :
        review.author # BotUsername /\ review.at >= lastProcessedTime)
FilterReviewsByTimestamp(reviews, lastProcessedTime) ==
    SelectSeq(reviews, LAMBDA review :
        review.author # BotUsername /\ After(review.at, lastProcessedTime))

\* pr_review_processor.go:410-428
FilterCommentsByTimestamp(comments, lastProcessedTime) ==
    SelectSeq(comments, LAMBDA comment :
        comment.author # BotUsername /\ After(comment.at, lastProcessedTime))

\* pr_review_processor.go:360-373: the loop over the listed comments.
RECURSIVE LatestTimestamp(_, _, _)
LatestTimestamp(comments, i, latestTimestamp) ==
    IF i > Len(comments) THEN latestTimestamp
    ELSE LET comment == comments[i]
             matched == comment.author = BotUsername /\ comment.mark # NoMark
         IN LatestTimestamp(comments, i + 1,
                IF matched /\ After(comment.mark, latestTimestamp)
                THEN comment.mark ELSE latestTimestamp)

\* The latest marker of the listed comments, whoever wrote them.
GetLastProcessingTimestampAnyAuthor(comments) ==
    LET marks == {comments[i].mark : i \in DOMAIN comments} \cup {ZeroTime}
    IN CHOOSE m \in marks : \A n \in marks : m >= n

\* pr_review_processor.go:354-376, given the listed comments.
GetLastProcessingTimestamp(comments) == LatestTimestamp(comments, 1, ZeroTime)

\* The value of the ticket's pull-request field: absent or empty, the URL of
\* the pull request, or a URL that is not one of a pull request.
PullSegment == <<"p", "u", "l", "l">>
PRUrl == HttpsPrefix \o <<"o", "/", "r", "/">> \o PullSegment \o <<"/", "1">>
PRFieldValues == {<<>>, PRUrl, HttpsPrefix \o <<"o", "/", "r">>}


\* pr_review_processor.go:176-192: the pattern
\* https://github\.com/([^/]+)/([^/]+)/pull/(\d+), on a URL that starts with it.
ExtractPRInfoFromURL(url) ==
    LET parts == Split(TrimPrefix(url, HttpsPrefix), "/")
        ok == /\ HasPrefix(url, HttpsPrefix)
              /\ Len(parts) >= 4
              /\ parts[1] # <<>>
              /\ parts[2] # <<>>
              /\ parts[3] = PullSegment
              /\ parts[4] # <<>>
              /\ parts[4][1] \in {"0", "1", "2", "3", "4", "5", "6", "7", "8", "9"}
    IN IF ok THEN [err |-> FALSE, owner |-> parts[1], repo |-> parts[2], number |-> parts[4]]
       ELSE [err |-> TRUE, owner |-> <<>>, repo |-> <<>>, number |-> <<>>]

Max(a, b) == IF a >= b THEN a ELSE b

\* The feedback of a run that has not collected any.
NoFeedback == <<>>

NoPRURL == [read |-> FALSE, url |-> <<>>]
NoFetch == [n |-> 0, cloneURL |-> "", headRef |-> "", baseRef |-> ""]
NoFiltered == [reviews |-> <<>>, comments |-> <<>>]
NothingRecorded == [any |-> FALSE, n |-> 0]

\* No feedback run has started; the pull request has no review or comment.
InitFeedback ==
    /\ fbClock = 1
    /\ prItems = <<>>
    /\ fbStarted = 0
    /\ fpc = [r \in FbRuns |-> "idle"]
    /\ fbPRURL = [r \in FbRuns |-> NoPRURL]
    /\ fbFetched = [r \in FbRuns |-> NoFetch]
    /\ fbWm = [r \in FbRuns |-> ZeroTime]
    /\ fbListed = [r \in FbRuns |-> FALSE]
    /\ fbFeedback = [r \in FbRuns |-> NoFeedback]
    /\ fbFiltered = [r \in FbRuns |-> NoFiltered]
    /\ fbCalls = [r \in FbRuns |-> <<>>]
    /\ fbResult = [r \in FbRuns |-> "none"]
    /\ fbBase = [r \in FbRuns |-> NothingRecorded]
    /\ fbMaxUsed = ZeroTime
    /\ fbPushed = {}
    /\ fbUnmarked = [any |-> FALSE, wm |-> ZeroTime, n |-> 0]
    /\ fbProcessed = 0
    /\ fbRecorded = NothingRecorded

\* The clock advances.
FbTick ==
    /\ fbClock < MaxFbTime
    /\ fbClock' = fbClock + 1
    /\ UNCHANGED <<prItems, fbStarted, fbRunVars, fbMaxUsed, fbUnmarked, fbPushed, fbProcessed, fbRecorded>>
    /\ UNCHANGED notFbVars

\* A reviewer (or somebody using the bot account) submits a review or a
\* comment, at most one in a second; the code host stamps it with the
\* current second.
AddFeedback(c) ==
    /\ \A i \in DOMAIN prItems :
          (prItems[i].author # BotUsername \/ prItems[i].mark = NoMark)
              => prItems[i].at # fbClock
    /\ prItems' = Append(prItems, Item(c.author, c.kind, fbClock, c.mark))
    /\ UNCHANGED <<fbClock, fbStarted, fbRunVars, fbMaxUsed, fbUnmarked, fbPushed, fbProcessed, fbRecorded>>
    /\ UNCHANGED notFbVars

\* A step of a run that returns from ProcessPRReviewFeedback.
FbReturn(r, log, res) ==
    /\ fbCalls' = [fbCalls EXCEPT ![r] = log]
    /\ fbResult' = [fbResult EXCEPT ![r] = res]
    /\ fpc' = [fpc EXCEPT ![r] = "done"]

\* A step of a run that goes on to the position next.
FbGoOn(r, log, next) ==
    /\ fbCalls' = [fbCalls EXCEPT ![r] = log]
    /\ fpc' = [fpc EXCEPT ![r] = next]
    /\ UNCHANGED fbResult

\* pr_feedback_scanner.go:119-123: a run starts on a free goroutine.
FbStartRun(r) ==
    /\ fpc[r] \in {"idle", "done"}
    /\ fbStarted < MaxFbRuns
    /\ fbStarted' = fbStarted + 1
    /\ fpc' = [fpc EXCEPT ![r] = "getTicket"]
    /\ fbPRURL' = [fbPRURL EXCEPT ![r] = NoPRURL]
    /\ fbFetched' = [fbFetched EXCEPT ![r] = NoFetch]
    /\ fbWm' = [fbWm EXCEPT ![r] = ZeroTime]
    /\ fbListed' = [fbListed EXCEPT ![r] = FALSE]
    /\ fbFeedback' = [fbFeedback EXCEPT ![r] = NoFeedback]
    /\ fbFiltered' = [fbFiltered EXCEPT ![r] = NoFiltered]
    /\ fbCalls' = [fbCalls EXCEPT ![r] = <<>>]
    /\ fbResult' = [fbResult EXCEPT ![r] = "none"]
    /\ fbBase' = [fbBase EXCEPT ![r] = fbRecorded]
    /\ UNCHANGED <<fbClock, prItems, fbMaxUsed, fbUnmarked, fbPushed, fbProcessed, fbRecorded>>
    /\ UNCHANGED notFbVars

\* pr_review_processor.go:50-55
FbGetTicket(r) ==
    /\ fpc[r] = "getTicket"
    /\ LET log == Append(fbCalls[r], "GetTicket")
       IN \/ FbReturn(r, log, "err")
          \/ FbGoOn(r, log, "prURL")
    /\ UNCHANGED <<fbClock, prItems, fbStarted, fbPRURL, fbFetched, fbWm, fbListed, fbFeedback, fbFiltered, fbBase,
                   fbMaxUsed, fbUnmarked, fbPushed, fbProcessed, fbRecorded>>
    /\ UNCHANGED notFbVars

\* The step with an absent or empty pull-request field taken for an error.
FbGetPRURLEmptyIsError(r) ==
    /\ fpc[r] = "prURL"
    /\ IF prFieldName = ""
       THEN FbReturn(r, fbCalls[r], "err") /\ UNCHANGED fbPRURL
       ELSE LET log1 == Append(fbCalls[r], "GetFieldIDByName")
                log2 == Append(log1, "GetTicketWithExpandedFields")
            IN \/ FbReturn(r, log1, "err") /\ UNCHANGED fbPRURL
               \/ FbReturn(r, log2, "err") /\ UNCHANGED fbPRURL
               \/ \E url \in PRFieldValues :
                    /\ fbPRURL' = [fbPRURL EXCEPT ![r] = [read |-> TRUE, url |-> url]]
                    /\ IF url = <<>> \/ ExtractPRInfoFromURL(url).err
                       THEN FbReturn(r, log2, "err")
                       ELSE FbGoOn(r, log2, "details")
    /\ UNCHANGED <<fbClock, prItems, fbStarted, fbFetched, fbWm, fbListed, fbFeedback, fbFiltered, fbBase,
                   fbMaxUsed, fbUnmarked, fbPushed, fbProcessed, fbRecorded>>
    /\ UNCHANGED notFbVars

\* pr_review_processor.go:57-74 with getPRURLFromTicket (131-173): the
\* pull-request URL of the ticket, then its owner, repository and number.
FbGetPRURL(r) ==
    /\ fpc[r] = "prURL"
    /\ IF prFieldName = ""
       THEN FbReturn(r, fbCalls[r], "err") /\ UNCHANGED fbPRURL
       ELSE LET log1 == Append(fbCalls[r], "GetFieldIDByName")
                log2 == Append(log1, "GetTicketWithExpandedFields")
            IN \/ FbReturn(r, log1, "err") /\ UNCHANGED fbPRURL
               \/ FbReturn(r, log2, "err") /\ UNCHANGED fbPRURL
               \/ \E url \in PRFieldValues :
                    /\ fbPRURL' = [fbPRURL EXCEPT ![r] = [read |-> TRUE, url |-> url]]
                    /\ IF url = <<>> THEN FbReturn(r, log2, "ok")
                       ELSE IF ExtractPRInfoFromURL(url).err THEN FbReturn(r, log2, "err")
                       ELSE FbGoOn(r, log2, "details")
    /\ UNCHANGED <<fbClock, prItems, fbStarted, fbFetched, fbWm, fbListed, fbFeedback, fbFiltered, fbBase,
                   fbMaxUsed, fbUnmarked, fbPushed, fbProcessed, fbRecorded>>
    /\ UNCHANGED notFbVars

\* pr_review_processor.go:76-81: the reviews and comments of the pull request
\* as they are now, and the clone URL of its head repository.
FbGetPRDetails(r) ==
    /\ fpc[r] = "details"
    /\ LET log == Append(fbCalls[r], "GetPRDetails")
       IN \/ /\ FbReturn(r, log, "err")
             /\ UNCHANGED fbFetched
          \/ \E url \in {"", ForkCloneURL} :
                /\ fbFetched' = [fbFetched EXCEPT ![r] =
                                   [n |-> Len(prItems), cloneURL |-> url,
                                    headRef |-> PRHeadRef, baseRef |-> TargetBranch]]
                /\ FbGoOn(r, log, "watermark")
    /\ UNCHANGED <<fbClock, prItems, fbStarted, fbWm, fbListed, fbFeedback, fbFiltered, fbBase,
                   fbPRURL, fbMaxUsed, fbUnmarked, fbPushed, fbProcessed, fbRecorded>>
    /\ UNCHANGED notFbVars

\* prDetails.Reviews and prDetails.Comments of a run: the items it fetched.
FbItems(r) == SubSeq(prItems, 1, fbFetched[r].n)

\* pr_review_processor.go:97-98: the decision on the filtered feedback.
NothingToDo(filteredReviews, filteredComments) ==
    ~HasRequestChangesReviews(filteredReviews) /\ Len(filteredComments) = 0

\* Only the reviews and comments that come after the watermark, tagged.
CollectFeedbackOfNewOnly(reviews, comments, lastProcessedTime) ==
    LET Entry(e) == [item |-> e, status |-> "NEW"]
        Entries(items) == [i \in DOMAIN items |-> Entry(items[i])]
    IN Entries(FilterReviewsByTimestamp(reviews, lastProcessedTime))
       \o Entries(FilterCommentsByTimestamp(comments, lastProcessedTime))

\* pr_review_processor.go:205-251: the sections of the feedback text, one per
\* review and then one per comment that the bot account did not write, each
\* with its status.
CollectFeedback(reviews, comments, lastProcessedTime) ==
    LET Entry(e) == [item |-> e,
                     status |-> IF ~After(e.at, lastProcessedTime)
                                THEN "HANDLED" ELSE "NEW"]
        NotByBot(e) == e.author # BotUsername
        Entries(items) ==
            LET kept == SelectSeq(items, NotByBot)
            IN [i \in DOMAIN kept |-> Entry(kept[i])]
    IN Entries(reviews) \o Entries(comments)

\* A fallback to the current time.
WatermarkNowOnListError == fbClock

\* pr_review_processor.go:85-89: lastProcessedTime = time.Time{} when
\* getLastProcessingTimestamp returned an error.
WatermarkOnListError == ZeroTime

\* pr_review_processor.go:83-110: the watermark (the zero time when the
\* comments cannot be listed), the filters, the decision, and the clone URL
\* of the fork (getRepositoryURLFromPR, 254-263).
FbReadWatermark(r) ==
    /\ fpc[r] = "watermark"
    /\ \E listed \in BOOLEAN :
         LET log == Append(fbCalls[r], "ListPRComments")
             lastProcessedTime ==
                 IF listed THEN GetLastProcessingTimestamp(Comments(prItems))
                 ELSE WatermarkOnListError
             filteredReviews ==
                 FilterReviewsByTimestamp(Reviews(FbItems(r)), lastProcessedTime)
             filteredComments ==
                 FilterCommentsByTimestamp(Comments(FbItems(r)), lastProcessedTime)
         IN /\ fbWm' = [fbWm EXCEPT ![r] = lastProcessedTime]
            /\ fbListed' = [fbListed EXCEPT ![r] = listed]
            /\ fbMaxUsed' = Max(fbMaxUsed, lastProcessedTime)
            /\ fbFiltered' = [fbFiltered EXCEPT ![r] =
                                [reviews |-> filteredReviews, comments |-> filteredComments]]
            /\ IF NothingToDo(filteredReviews, filteredComments)
               THEN /\ FbReturn(r, log, "ok")
                    /\ UNCHANGED fbFeedback
               ELSE /\ fbFeedback' = [fbFeedback EXCEPT ![r] =
                           CollectFeedback(Reviews(FbItems(r)), Comments(FbItems(r)),
                                           lastProcessedTime)]
                    /\ IF fbFetched[r].cloneURL = ""
                       THEN FbReturn(r, log, "err")
                       ELSE FbGoOn(r, log, "fixes")
    /\ UNCHANGED <<fbClock, prItems, fbStarted, fbPRURL, fbFetched, fbBase, fbUnmarked, fbPushed, fbProcessed,
                   fbRecorded>>
    /\ UNCHANGED notFbVars

\* The base branch of the pull request.
PRBaseBranch(pr) == pr.baseRef

\* pr_review_processor.go:277: branchName, the branch that is switched to,
\* pulled and pushed.
FixBranch(pr) == pr.headRef

\* github.go:302-323 after the clone of forkURL (270): "git push -u origin
\* branchName" in the clone.
PushTarget(origin, branchName) == [url |-> origin, branch |-> branchName]

\* The calls up to the commit.
FixOpsWithoutPush ==
    <<"CloneRepository", "SwitchToBranch", "PullChanges", "GenerateCode", "CommitChanges">>

\* The collaborator calls of applyFeedbackFixes (266-313), in order.
FixOps ==
    <<"CloneRepository", "SwitchToBranch", "PullChanges", "GenerateCode",
      "CommitChanges", "PushChanges">>

\* pr_review_processor.go:112-117 with applyFeedbackFixes (266-313): the calls
\* are made in order up to the first one that fails, which ends the run; when
\* the push has succeeded the fixes for the fetched feedback are on the pull
\* request.
FbApplyFeedbackFixes(r) ==
    /\ fpc[r] = "fixes"
    /\ \E made \in 1..Len(FixOps), failed \in BOOLEAN :
         LET log == fbCalls[r] \o SubSeq(FixOps, 1, made)
             pushed == IF made = Len(FixOps)
                       THEN {PushTarget(fbFetched[r].cloneURL, FixBranch(fbFetched[r]))}
                       ELSE {}
         IN /\ fbPushed' = fbPushed \cup pushed
            /\ IF failed
               THEN /\ FbReturn(r, log, "err")
                    /\ UNCHANGED fbProcessed
               ELSE /\ made = Len(FixOps)
                    /\ FbGoOn(r, log, "mark")
                    /\ fbProcessed' = Max(fbProcessed, fbFetched[r].n)
    /\ UNCHANGED <<fbClock, prItems, fbStarted, fbPRURL, fbFetched, fbWm, fbListed, fbFeedback, fbFiltered, fbBase,
                   fbMaxUsed, fbUnmarked, fbRecorded>>
    /\ UNCHANGED notFbVars

\* pr_review_processor.go:119-127 with updateProcessingTimestamp (379-386):
\* the marker comment with the current time, which the marker carries with
\* the resolution of one second; its failure is only logged.  The code host
\* stamps the comment when it receives it.
FbUpdateProcessingTimestamp(r) ==
    /\ fpc[r] = "mark"
    /\ LET log == Append(fbCalls[r], "AddPRComment")
       IN \/ \* lines 121-127: the failure is logged and the run returns nil
             /\ FbReturn(r, log, "ok")
             /\ fbUnmarked' = [any |-> TRUE, wm |-> fbWm[r], n |-> fbFetched[r].n]
             /\ UNCHANGED <<prItems, fbRecorded>>
          \/ \E lag \in {0, 1} :
                /\ FbReturn(r, log, "ok")
                /\ prItems' = Append(prItems, Item(BotUsername, "comment", fbClock + lag,
                                                   fbClock))
                /\ fbRecorded' = [any |-> TRUE, n |-> Max(fbRecorded.n, fbFetched[r].n)]
                /\ fbUnmarked' = [any |-> FALSE, wm |-> ZeroTime, n |-> 0]
    /\ UNCHANGED <<fbClock, fbStarted, fbPRURL, fbFetched, fbWm, fbListed, fbFeedback,
                   fbFiltered, fbBase, fbMaxUsed, fbPushed, fbProcessed>>
    /\ UNCHANGED notFbVars

(***************************************************************************)
(* Part IV: the scanner (JiraIssueScannerServiceImpl and                   *)
(* PRFeedbackScannerServiceImpl, which share one shape)                    *)
(***************************************************************************)

\* Goroutines that call Start and Stop on the scanner.
Callers == {"main", "other"}

\* Start and Stop calls modelled per behaviour.
MaxScCalls == 4

\* Searches that return tickets, per behaviour.
MaxScans == 2

\* searchResponse of SearchTickets: Total and Issues.
SearchResponses ==
    { [total |-> 0, issues |-> <<>>],
      [total |-> 2, issues |-> <<"K1", "K2">>] }

\* The goroutine of Start right after the go statement.
NewLoop == [pc |-> "new", ticker |-> "none", issues |-> <<>>, i |-> 1,
            cycle |-> 0]

\* A goroutine running ProcessTicket / ProcessPRReviewFeedback for the
\* idx-th issue of a scan.
NewTask(k, cycle, idx) == [key |-> k, cycle |-> cycle, idx |-> idx]

InitScanner ==
    /\ isRunning = FALSE
    /\ stopChan = "open"
    /\ panicked = FALSE
    /\ cpc = [c \in Callers |-> "idle"]
    /\ loops = <<>>
    /\ tasks = {}
    /\ scans = 0
    /\ startCalls = 0
    /\ stopCalls = 0
    /\ overlapped = FALSE
    /\ closeLog = <<>>

\* Another caller is inside Start or Stop.
OtherInCall(c) == \E d \in Callers \ {c} : cpc[d] # "idle"

\* A Start that goes on whether or not the scanner is running.
StartCheckIgnoringFlag(c) ==
    /\ ~panicked
    /\ cpc[c] = "idle"
    /\ startCalls + stopCalls < MaxScCalls
    /\ startCalls' = startCalls + 1
    /\ overlapped' = (overlapped \/ OtherInCall(c))
    /\ cpc' = [cpc EXCEPT ![c] = "start"]
    /\ UNCHANGED <<isRunning, stopChan, panicked, loops, tasks, scans, stopCalls,
                   closeLog>>
    /\ UNCHANGED notScVars

\* Start up to "if s.isRunning { return }".
StartCheck(c) ==
    /\ ~panicked
    /\ cpc[c] = "idle"
    /\ startCalls + stopCalls < MaxScCalls
    /\ startCalls' = startCalls + 1
    /\ overlapped' = (overlapped \/ OtherInCall(c))
    /\ cpc' = [cpc EXCEPT ![c] = IF isRunning THEN "idle" ELSE "start"]
    /\ UNCHANGED <<isRunning, stopChan, panicked, loops, tasks, scans, stopCalls,
                   closeLog>>
    /\ UNCHANGED notScVars

\* The rest of Start: s.isRunning = true; go func() { ... }().
StartGo(c) ==
    /\ ~panicked
    /\ cpc[c] = "start"
    /\ isRunning' = TRUE
    /\ loops' = Append(loops, NewLoop)
    /\ cpc' = [cpc EXCEPT ![c] = "idle"]
    /\ UNCHANGED <<stopChan, panicked, tasks, scans, startCalls, stopCalls,
                   overlapped, closeLog>>
    /\ UNCHANGED notScVars

\* Stop up to "if !s.isRunning { return }".
StopCheck(c) ==
    /\ ~panicked
    /\ cpc[c] = "idle"
    /\ startCalls + stopCalls < MaxScCalls
    /\ stopCalls' = stopCalls + 1
    /\ overlapped' = (overlapped \/ OtherInCall(c))
    /\ cpc' = [cpc EXCEPT ![c] = IF isRunning THEN "stop" ELSE "idle"]
    /\ UNCHANGED <<isRunning, stopChan, panicked, loops, tasks, scans, startCalls,
                   closeLog>>
    /\ UNCHANGED notScVars

\* The rest of Stop: s.isRunning = false; close(s.stopChan).  Closing a
\* closed channel is a runtime panic, which ends the process.
StopClose(c) ==
    /\ ~panicked
    /\ cpc[c] = "stop"
    /\ isRunning' = FALSE
    /\ closeLog' = Append(closeLog, [running |-> isRunning, chan |-> stopChan])
    /\ stopChan' = "closed"
    /\ panicked' = (stopChan = "closed")
    /\ cpc' = [cpc EXCEPT ![c] = "idle"]
    /\ UNCHANGED <<loops, tasks, scans, startCalls, stopCalls, overlapped>>
    /\ UNCHANGED notScVars

\* ticker := time.NewTicker(...); defer ticker.Stop(); then the initial scan.
LoopNewTicker(l) ==
    /\ ~panicked
    /\ loops[l].pc = "new"
    /\ loops' = [loops EXCEPT ![l].pc = "scan", ![l].ticker = "running"]
    /\ UNCHANGED <<isRunning, stopChan, panicked, cpc, tasks, scans, startCalls,
                   stopCalls, overlapped, closeLog>>
    /\ UNCHANGED notScVars

\* scanForTickets / scanForPRFeedback up to the loop over the issues.
LoopSearch(l) ==
    /\ ~panicked
    /\ loops[l].pc = "scan"
    /\ \/ \* SearchTickets failed
          /\ loops' = [loops EXCEPT ![l].pc = "select"]
          /\ UNCHANGED scans
       \/ \E resp \in SearchResponses :
            IF resp.total = 0
            THEN /\ loops' = [loops EXCEPT ![l].pc = "select"]
                 /\ UNCHANGED scans
            ELSE /\ scans < MaxScans
                 /\ scans' = scans + 1
                 /\ loops' = [loops EXCEPT ![l].pc = "dispatch",
                                           ![l].issues = resp.issues,
                                           ![l].i = 1,
                                           ![l].cycle = scans + 1]
    /\ UNCHANGED <<isRunning, stopChan, panicked, cpc, tasks, startCalls,
                   stopCalls, overlapped, closeLog>>
    /\ UNCHANGED notScVars

\* The iteration with a plain call in place of the go statement: it goes on
\* only when the processor has returned.
DispatchAndWait(l) ==
    /\ ~panicked
    /\ loops[l].pc = "dispatch"
    /\ tasks = {}
    /\ LET lp == loops[l] IN
        IF lp.i <= Len(lp.issues)
        THEN /\ tasks' = tasks \cup {NewTask(lp.issues[lp.i], lp.cycle, lp.i)}
             /\ loops' = [loops EXCEPT ![l].i = lp.i + 1]
        ELSE /\ loops' = [loops EXCEPT ![l].pc = "select",
                                       ![l].issues = <<>>,
                                       ![l].i = 1,
                                       ![l].cycle = 0]
             /\ UNCHANGED tasks
    /\ UNCHANGED <<isRunning, stopChan, panicked, cpc, scans, startCalls,
                   stopCalls, overlapped, closeLog>>
    /\ UNCHANGED notScVars

\* One iteration of "for _, issue := range searchResponse.Issues": the go
\* statement for the issue; after the last issue the scan returns.
LoopDispatch(l) ==
    /\ ~panicked
    /\ loops[l].pc = "dispatch"
    /\ LET lp == loops[l] IN
        IF lp.i <= Len(lp.issues)
        THEN /\ tasks' = tasks \cup {NewTask(lp.issues[lp.i], lp.cycle, lp.i)}
             /\ loops' = [loops EXCEPT ![l].i = lp.i + 1]
        ELSE /\ loops' = [loops EXCEPT ![l].pc = "select",
                                       ![l].issues = <<>>,
                                       ![l].i = 1,
                                       ![l].cycle = 0]
             /\ UNCHANGED tasks
    /\ UNCHANGED <<isRunning, stopChan, panicked, cpc, scans, startCalls,
                   stopCalls, overlapped, closeLog>>
    /\ UNCHANGED notScVars

\* select, case <-ticker.C: the ticker, which runs until it is stopped, has
\* sent a tick; the next scan.
LoopSelectTick(l) ==
    /\ ~panicked
    /\ loops[l].pc = "select"
    /\ loops[l].ticker = "running"
    /\ loops' = [loops EXCEPT ![l].pc = "scan"]
    /\ UNCHANGED <<isRunning, stopChan, panicked, cpc, tasks, scans, startCalls,
                   stopCalls, overlapped, closeLog>>
    /\ UNCHANGED notScVars

\* select, case <-s.stopChan: return, and the deferred ticker.Stop().
LoopSelectStop(l) ==
    /\ ~panicked
    /\ loops[l].pc = "select"
    /\ stopChan = "closed"
    /\ loops' = [loops EXCEPT ![l].pc = "exited", ![l].ticker = "stopped"]
    /\ UNCHANGED <<isRunning, stopChan, panicked, cpc, tasks, scans, startCalls,
                   stopCalls, overlapped, closeLog>>
    /\ UNCHANGED notScVars

\* The processor call of a task returns, with or without an error; the
\* goroutine ends either way.
TaskReturns(t, err) ==
    /\ ~panicked
    /\ t \in tasks
    /\ tasks' = tasks \ {t}
    /\ UNCHANGED <<isRunning, stopChan, panicked, cpc, loops, scans, startCalls,
                   stopCalls, overlapped, closeLog>>
    /\ UNCHANGED notScVars

(***************************************************************************)
(* Part V: ExtractRepoInfo on repository URLs of every shape               *)
(***************************************************************************)

\* Longest repository name drawn.
MaxNameLen == 4

\* Owner names drawn.
Owners == {<<"o">>, <<"o", "-", "1">>}

\* Characters of the repository names drawn.
NameChars == {".", "g", "i", "t"}

\* Sequences over NameChars of length n.
RECURSIVE SeqsOfLen(_)
SeqsOfLen(n) ==
    IF n = 0 THEN {<<>>}
    ELSE {Append(w, c) : w \in SeqsOfLen(n - 1), c \in NameChars}

\* A repository name of the code host: not empty, without "/", and not
\* ending in ".git" (the clone URL of R is that of R with ".git" appended).
IsRepoName(n) ==
    /\ n # <<>>
    /\ \A i \in DOMAIN n : n[i] # "/"
    /\ ~HasSuffix(n, GitSuffix)

RepoNames == {n \in UNION {SeqsOfLen(k) : k \in 1..MaxNameLen} : IsRepoName(n)}

\* The shapes of URL: the three that name a repository of the code host, and
\* three that start with neither recognized prefix.
RecognizedShapes == {"https.git", "https", "ssh.git"}
OtherShapes == {"http.git", "path", "ssh-other-host.git"}


\* The URL of shape sh for owner o and repository r.
RepoURL(sh, o, r) ==
    CASE sh = "https.git" -> HttpsPrefix \o o \o <<"/">> \o r \o GitSuffix
      [] sh = "https" -> HttpsPrefix \o o \o <<"/">> \o r
      [] sh = "ssh.git" -> SshPrefix \o o \o <<"/">> \o r \o GitSuffix
      [] sh = "http.git" -> <<"h","t","t","p",":","/","/","g","i","t","h","u","b",".","c","o","m","/">> \o o \o <<"/">> \o r \o GitSuffix
      [] sh = "path" -> o \o <<"/">> \o r
      [] sh = "ssh-other-host.git" -> <<"g","i","t","@","g","i","t","l","a","b",".","c","o","m",":">> \o o \o <<"/">> \o r \o GitSuffix

\* No call has returned.
NoCall == [called |-> FALSE, err |-> FALSE, owner |-> <<>>, repo |-> <<>>]

\* What a call returned.
ExtractReturned(info) ==
    [called |-> TRUE, err |-> info.err, owner |-> info.owner, repo |-> info.repo]

\* No call of ExtractRepoInfo is modelled.
ExtractAtRest ==
    /\ exIn = [shape |-> "https.git", owner |-> <<"o">>, repo |-> <<"g">>]
    /\ exOut = NoCall

\* A URL of any shape, owner and repository is about to be passed.
InitExtract ==
    /\ exIn \in [shape : RecognizedShapes \cup OtherShapes, owner : Owners, repo : RepoNames]
    /\ exOut = NoCall

\* The call.
CallExtractRepoInfo ==
    /\ ~exOut.called
    /\ exOut' = ExtractReturned(ExtractRepoInfo(RepoURL(exIn.shape, exIn.owner, exIn.repo)))
    /\ UNCHANGED exIn
    /\ UNCHANGED notExVars

(***************************************************************************)
(* Specifications                                                          *)
(***************************************************************************)

\* The token cache alone: no pipeline run ever starts.
InitTokenOnly ==
    InitToken /\ PipelineAtStart(FALSE, "") /\ InitFeedback /\ InitScanner /\ ExtractAtRest

\* The pipeline alone: no goroutine ever asks for a token.
InitPipelineOnly ==
    InitToken /\ InitPipeline /\ InitFeedback /\ InitScanner /\ ExtractAtRest

\* The feedback runs alone, with or without a configured pull-request field.
InitFeedbackOnly ==
    /\ InitToken
    /\ \E fieldName \in {"", "Git Pull Request"} : PipelineAtStart(FALSE, fieldName)
    /\ InitFeedback
    /\ InitScanner
    /\ ExtractAtRest

\* One scanner alone: no pipeline or feedback run is modelled behind its tasks.
InitScannerOnly ==
    InitToken /\ PipelineAtStart(FALSE, "") /\ InitFeedback /\ InitScanner /\ ExtractAtRest

\* One call of ExtractRepoInfo alone.
InitExtractOnly ==
    InitToken /\ PipelineAtStart(FALSE, "") /\ InitFeedback /\ InitScanner /\ InitExtract

NextToken ==
    \/ Tick
    \/ \E g \in Goroutines : RLock(g)
    \/ \E g \in Goroutines : FastCheck(g)
    \/ \E g \in Goroutines : Lock(g)
    \/ \E g \in Goroutines : ReCheck(g)
    \/ \E g \in Goroutines : Sign(g)
    \/ \E g \in Goroutines : Exchange(g)
    \/ \E g \in Goroutines : StoreExpiry(g)

NextPipeline ==
    \/ \E r \in Runs, k \in Keys : StartRun(r, k)
    \/ \E r \in Runs : GetTicket(r)
    \/ \E r \in Runs : UpdateStatusInProgress(r)
    \/ \E r \in Runs : CheckForkExists(r)
    \/ \E r \in Runs : ForkRepository(r)
    \/ \E x \in RepoRefs : ForkBecomesReady(x)
    \/ \E r \in Runs : PollFork(r)
    \/ \E r \in Runs : CloneRepository(r)
    \/ \E r \in Runs : SwitchToTargetBranch(r)
    \/ \E r \in Runs : CreateBranch(r)
    \/ \E r \in Runs : GenerateDocumentation(r)
    \/ \E r \in Runs : GenerateCode(r)
    \/ \E r \in Runs : CommitChanges(r)
    \/ \E r \in Runs : PushChanges(r)
    \/ \E r \in Runs : CreatePullRequest(r)
    \/ \E r \in Runs : UpdateTicketFieldByName(r)
    \/ \E r \in Runs : AddComment(r)
    \/ \E r \in Runs : UpdateStatusInReview(r)

NextFeedback ==
    \/ FbTick
    \/ \E c \in FeedbackChoices : AddFeedback(c)
    \/ \E r \in FbRuns : FbStartRun(r)
    \/ \E r \in FbRuns : FbGetTicket(r)
    \/ \E r \in FbRuns : FbGetPRURL(r)
    \/ \E r \in FbRuns : FbGetPRDetails(r)
    \/ \E r \in FbRuns : FbReadWatermark(r)
    \/ \E r \in FbRuns : FbApplyFeedbackFixes(r)
    \/ \E r \in FbRuns : FbUpdateProcessingTimestamp(r)

NextScanner ==
    \/ \E c \in Callers : StartCheck(c)
    \/ \E c \in Callers : StartGo(c)
    \/ \E c \in Callers : StopCheck(c)
    \/ \E c \in Callers : StopClose(c)
    \/ \E l \in 1..Len(loops) : LoopNewTicker(l)
    \/ \E l \in 1..Len(loops) : LoopSearch(l)
    \/ \E l \in 1..Len(loops) : LoopDispatch(l)
    \/ \E l \in 1..Len(loops) : LoopSelectTick(l)
    \/ \E l \in 1..Len(loops) : LoopSelectStop(l)
    \/ \E t \in tasks, err \in BOOLEAN : TaskReturns(t, err)

NextExtract == CallExtractRepoInfo

SpecToken == InitTokenOnly /\ [][NextToken]_vars

SpecPipeline == InitPipelineOnly /\ [][NextPipeline]_vars

SpecFeedback == InitFeedbackOnly /\ [][NextFeedback]_vars

SpecScanner == InitScannerOnly /\ [][NextScanner]_vars

SpecExtract == InitExtractOnly /\ [][NextExtract]_vars

\* Fair scheduling of the scanner.  The l-th loop goroutine, when it exists,
\* runs: the Go scheduler lets every goroutine that can run do so, and the
\* calls of a scan return.  select takes a case that is ready again and
\* again: a closed stopChan is ready at every select, and select picks among
\* the ready cases at random.  A call of Start or Stop that has passed its
\* check goes on.
ScannerFairness ==
    /\ \A l \in 1..MaxScCalls :
          /\ WF_vars(l <= Len(loops)
                       /\ (LoopNewTicker(l) \/ LoopSearch(l) \/ LoopDispatch(l)))
          /\ SF_vars(l <= Len(loops) /\ LoopSelectStop(l))
    /\ \A c \in Callers : WF_vars(StartGo(c) \/ StopClose(c))

\* The scanner under fair scheduling.
SpecScannerFair == SpecScanner /\ ScannerFairness


(***************************************************************************)
(* Properties of the token cache (checked under SpecToken)                 *)
(***************************************************************************)

\* The goroutine's call has returned.
Returned(g) == tpc[g] = "idle" /\ ret[g].kind # "none"

\* The goroutine's call found the cache empty or expired on the fast path
\* and has returned a token.
ReturnedSlowOk(g) == Returned(g) /\ slow[g] /\ ret[g].kind \in {"recheck", "fresh"}

\* An answered exchange that succeeded with a token whose expiry is still
\* more than the buffer ahead.
GoodExchange(e) == e.ok /\ e.tok # EmptyToken /\ now < e.exp - Buffer

\* Two calls that both started after the same number of answered exchanges,
\* both on a cache that was empty or expired, and both returned a token,
\* while every exchange answered since was a good one.
SameWindow(g, h) ==
    /\ g # h
    /\ ReturnedSlowOk(g)
    /\ ReturnedSlowOk(h)
    /\ startEx[g] = startEx[h]
    /\ \A i \in (startEx[g] + 1)..Len(exLog) : GoodExchange(exLog[i])

\* C1: concurrent calls of GetInstallationToken on an empty or expired cache,
\* with exchanges that succeed with an expiry more than 5 minutes ahead,
\* cause exactly one exchange request, and every caller returns the token of
\* that one exchange.
C1_OneExchangeForConcurrentCallers ==
    \A g, h \in Goroutines :
        SameWindow(g, h) =>
            /\ Len(exLog) = startEx[g] + 1
            /\ ret[g].tok = exLog[Len(exLog)].tok
            /\ ret[h].tok = exLog[Len(exLog)].tok

\* Two callers met an expired cache (a token had been exchanged before) and
\* both returned the one token exchanged since.
C1_Witness ==
    \E g, h \in Goroutines :
        /\ SameWindow(g, h)
        /\ startEx[g] >= 1
        /\ exLog[startEx[g]].tok # EmptyToken
        /\ Len(exLog) = startEx[g] + 1

\* C2: every token GetInstallationToken returns without error, cached or
\* freshly exchanged, has an expiry at least 5 minutes after the moment it
\* is returned.
C2_ReturnedTokenHasFiveMinutes ==
    [][\A g \in Goroutines :
          (ret'[g] # ret[g] /\ ret'[g].kind \in {"fast", "recheck", "fresh"})
              => ret'[g].exp >= now' + Buffer]_vars

\* C3: at every moment at most one refresh (signing plus exchange request)
\* is in flight.
C3_AtMostOneRefreshInFlight ==
    Cardinality({g \in Goroutines : tpc[g] \in {"sign", "exchange", "storeExpiry"}}) <= 1

\* An exchange is in flight while another caller waits for the write lock.
C3_Witness ==
    \E g, h \in Goroutines : tpc[g] = "exchange" /\ tpc[h] = "wantLock"

\* C4: when signing or the exchange fails, GetInstallationToken returns an
\* error and the cached (token, expiry) pair is what it was before the
\* refresh started.
C4_FailedRefreshKeepsCache ==
    [][\A g \in Goroutines :
          LET signFailed == tpc[g] = "sign" /\ tpc'[g] = "idle"
              exchangeFailed == /\ tpc[g] = "exchange"
                                /\ tpc'[g] = "idle"
                                /\ ~exLog'[Len(exLog')].ok
          IN (signFailed \/ exchangeFailed)
                => /\ ret'[g].kind = "error"
                   /\ cache' = cache
                   /\ cache' = lockSnap]_vars

\* A refresh failed while the cache held an earlier token, which is still
\* there.
C4_Witness ==
    \E g \in Goroutines :
        /\ Returned(g)
        /\ ret[g].kind = "error"
        /\ cache.Token # EmptyToken
        /\ cache = lockSnap

\* C5: while the cache holds a non-empty token and now is before its expiry
\* minus 5 minutes, the call returns that token on the fast path, sends no
\* exchange request and leaves the cache unchanged.
C5_FastPathServesCache ==
    [][\A g \in Goroutines :
          (/\ tpc[g] = "rlocked"
           /\ tpc'[g] # "rlocked"
           /\ cache.Token # EmptyToken
           /\ now < cache.ExpiresAt - Buffer)
              => /\ ret'[g] = OkRet("fast", cache.Token, cache.ExpiresAt)
                 /\ tpc'[g] = "idle"
                 /\ cache' = cache
                 /\ exLog' = exLog]_vars

\* A call was served from the cache.
C5_Witness ==
    \E g \in Goroutines : Returned(g) /\ ret[g].kind = "fast" /\ ret[g].tok = cache.Token


\* The (token, expiry) pairs that one exchange produced, and the empty pair the
\* cache is constructed with.
PairsOfOneExchange ==
    {[Token |-> EmptyToken, ExpiresAt |-> ZeroTime]}
        \cup {[Token |-> exLog[i].tok, ExpiresAt |-> exLog[i].exp] :
                 i \in {j \in 1..Len(exLog) : exLog[j].ok}}

\* A goroutine that holds the read lock sees a token with its own expiry.
ReadersSeeOnePair ==
    \A g \in Goroutines : tpc[g] = "rlocked" => cache \in PairsOfOneExchange

\* The token of a fast-path return and the expiry that was tested for it come
\* from the same exchange, and that expiry passed the test.
FastReturnsOnePair ==
    \A g \in Goroutines :
        ret[g].kind = "fast" =>
            /\ [Token |-> ret[g].tok, ExpiresAt |-> ret[g].exp] \in PairsOfOneExchange
            /\ ret[g].tok # EmptyToken

\* Either field of the cache changes only in a step of the goroutine that
\* holds the write lock, while no goroutine holds the read lock.
CacheStoredUnderLock ==
    cache' # cache => (writer # None /\ tpc[writer] \in {"exchange", "storeExpiry"}
                        /\ readers = 0)

\* C40: the cached token and its expiry are replaced under the exclusive
\* lock: a goroutine on the fast path never sees a token paired with the
\* expiry of another token, and the expiry it tested is the expiry of the
\* token it returns.
C40_ReadersSeeTokenWithItsOwnExpiry ==
    /\ [](ReadersSeeOnePair /\ FastReturnsOnePair)
    /\ [][CacheStoredUnderLock]_vars

\* A fast-path return of the second token, after a first token with another
\* expiry was replaced in the cache.
C40_Witness ==
    \E g \in Goroutines :
        /\ ret[g].kind = "fast"
        /\ Len(exLog) >= 2
        /\ exLog[1].ok /\ exLog[1].tok # EmptyToken
        /\ exLog[2].ok /\ exLog[2].tok = ret[g].tok
        /\ exLog[1].exp \notin {ZeroTime, ret[g].exp}


(***************************************************************************)
(* Properties of ProcessTicket (checked under SpecPipeline)                *)
(***************************************************************************)

\* The operations a run has called.
Ops(r) == {calls[r][i].op : i \in DOMAIN calls[r]}

CountOp(log, op) == Cardinality({i \in DOMAIN log : log[i].op = op})

\* The run has fetched its ticket.
Fetched(r) ==
    /\ ppc[r] \notin {"idle", "getTicket"}
    /\ result[r].msg # "Failed to get ticket details"

\* The ticket has no component, or its first component has no non-empty
\* repository mapping.
FirstUnmapped(comps) ==
    \/ Len(comps) = 0
    \/ comps[1] \notin DOMAIN ComponentToRepo
    \/ ComponentToRepo[comps[1]] = <<>>

RepoOps ==
    {"CheckForkExists", "ForkRepository", "CloneRepository", "SwitchToTargetBranch",
     "CreateBranch", "GenerateDocumentation", "GenerateCode", "CommitChanges",
     "PushChanges", "CreatePullRequest"}

\* C6: when the fetched ticket has no components, or its first component has
\* no non-empty repository mapping (whatever its other components map to),
\* ProcessTicket fails without any existence check, fork, clone, branch,
\* code generation, push or pull request.
C6_UnmappedTicketTouchesNoRepo ==
    \A r \in Runs :
        (Fetched(r) /\ FirstUnmapped(ticket[r])) =>
            /\ ppc[r] = "done"
            /\ result[r].err
            /\ Ops(r) \cap RepoOps = {}
            /\ attempt[r] = 0

\* A run failed on a ticket whose first component is unmapped while its
\* second component has a repository.
C6_Witness ==
    \E r \in Runs :
        /\ Fetched(r)
        /\ Len(ticket[r]) = 2
        /\ FirstUnmapped(ticket[r])
        /\ ticket[r][2] \in DOMAIN ComponentToRepo
        /\ ComponentToRepo[ticket[r][2]] # <<>>
        /\ result[r].err

\* The run asked for the fork to be created after the first check answered
\* "absent", and no check ever reported the fork present.
NeverReady(r) ==
    /\ ppc[r] = "done"
    /\ "ForkRepository" \in Ops(r)
    /\ result[r].msg # "Failed to create fork"
    /\ readyURL[r] = ""

\* CheckForkExists calls of a run in which the fork was never reported
\* present: the listed first check and the attempts of the readiness loop.
NumChecks(r) == CountOp(calls[r], "CheckForkExists") + attempt[r]

ForkNotReady == "Fork failed to become ready after multiple attempts"

\* C7 as claimed: when the fork is never reported present, ProcessTicket
\* fails with the fork-not-ready failure, never clones, and makes no more
\* than 10 CheckForkExists calls.
C7_AtMostTenChecks ==
    \A r \in Runs :
        NeverReady(r) =>
            /\ result[r] = Failure(ForkNotReady)
            /\ "CloneRepository" \notin Ops(r)
            /\ NumChecks(r) <= 10

\* C7 as amended: when the first check answers "absent", the fork request
\* succeeds and the fork is never reported present, ProcessTicket fails with
\* the fork-not-ready failure, never clones, and makes no more than 11
\* CheckForkExists calls: the first check and 10 attempts of the loop.
C7_AtMostElevenChecks ==
    \A r \in Runs :
        NeverReady(r) =>
            /\ result[r] = Failure(ForkNotReady)
            /\ "CloneRepository" \notin Ops(r)
            /\ NumChecks(r) <= 1 + MaxForkAttempts

\* A run gave up after the first check and all attempts of the loop.
C7_Witness ==
    \E r \in Runs : NeverReady(r) /\ NumChecks(r) = 11

\* Failures of the steps that follow the fork.
LaterFailures ==
    {"Failed to clone repository", "Failed to switch to target branch",
     "Failed to create branch", "Failed to generate code changes",
     "Failed to commit changes", "Failed to push changes",
     "Failed to create pull request"}

\* C8: when the existence check answers "not ready" N times and then
\* "ready" (the loop leaves room for N up to 10, so for every N < 10), and
\* every later step succeeds, ProcessTicket does not fail with fork-not-ready:
\* it clones from the clone URL of the "ready" answer and succeeds.
C8_ReadyForkIsClonedAndRunSucceeds ==
    \A r \in Runs :
        (ppc[r] = "done" /\ readyURL[r] # "" /\ result[r].msg \notin LaterFailures) =>
            /\ result[r] = Success
            /\ CountOp(calls[r], "CloneRepository") = 1
            /\ \E i \in DOMAIN calls[r] :
                 calls[r][i] = CallRec("CloneRepository", <<readyURL[r], RepoDir(r)>>)

\* A run created the fork, saw it become ready in the loop and succeeded.
C8_Witness ==
    \E r \in Runs :
        /\ result[r] = Success
        /\ "ForkRepository" \in Ops(r)
        /\ readyURL[r] = ForkCloneURL

\* C9: ForkRepository is invoked at most once for an upstream repository,
\* over sequential or concurrent runs, and only after an existence check
\* reported the fork absent.
C9_ForkAtMostOnce ==
    /\ \A x \in RepoRefs : forkCalls[x] <= 1
    /\ \A r \in Runs :
         ppc[r] = "fork" =>
            /\ ~exists[r]
            /\ calls[r][Len(calls[r])].op = "CheckForkExists"

\* The status values a run has written, in order.
IsStatusUpdate(e) == e.op = "UpdateTicketStatus"
StatusWrites(r) ==
    LET updates == SelectSeq(calls[r], IsStatusUpdate)
    IN [i \in 1..Len(updates) |-> updates[i].arg[2]]

\* C10: a run that creates the pull request and completes has made exactly
\* two status updates, the in-progress status and then the in-review status.
C10_TwoStatusUpdatesInOrder ==
    \A r \in Runs :
        (ppc[r] = "done" /\ "CreatePullRequest" \in Ops(r) /\ ~result[r].err) =>
            StatusWrites(r) = <<StatusInProgress, StatusInReview>>

\* A run completed with its pull request and both status updates.
C10_Witness ==
    \E r \in Runs :
        /\ ppc[r] = "done"
        /\ ~result[r].err
        /\ "CreatePullRequest" \in Ops(r)
        /\ Len(StatusWrites(r)) = 2

\* The upstream repository the first component of the run's ticket maps to.
Upstream(r) ==
    LET info == ExtractRepoInfo(ComponentToRepo[ticket[r][1]])
    IN <<info.owner, info.repo>>

\* C11: for every ticket key K with summary S and bot username B, the pull
\* request is created on the upstream owner/repo with head exactly "B:K" and
\* base equal to the configured target branch, and the commit message and
\* the pull-request title are both exactly "K: S".
C11_PullRequestAndCommitFormat ==
    \A r \in Runs : \A i \in DOMAIN calls[r] :
        LET e == calls[r][i]
            expected == key[r] \o ": " \o Summaries[key[r]]
        IN /\ e.op = "CommitChanges" => e.arg[2] = expected
           /\ e.op = "CreatePullRequest" =>
                /\ e.arg = <<Upstream(r), expected, BotUsername \o ":" \o key[r],
                             TargetBranch>>
                /\ key[r] = "K1" =>
                      /\ e.arg[2] = "K1: Test ticket"
                      /\ e.arg[3] = "bot:K1"
                      /\ e.arg[4] = "main"

\* A run for K1 with the summary "Test ticket" committed and created its
\* pull request.
C11_Witness ==
    \E r \in Runs :
        /\ key[r] = "K1"
        /\ summary[r] = "Test ticket"
        /\ \E i \in DOMAIN calls[r] :
             calls[r][i] = CallRec("CommitChanges", <<RepoDir(r), "K1: Test ticket">>)
        /\ \E i \in DOMAIN calls[r] :
             calls[r][i] = CallRec("CreatePullRequest",
                                   <<TheRepo, "K1: Test ticket", "bot:K1", "main">>)

\* The failure comment handleFailure posts for a message.
FailureComment(r, msg) ==
    CallRec("AddComment", <<key[r], "AI failed to process this ticket", msg>>)

IsFailureComment(e) ==
    e.op = "AddComment" /\ e.arg[2] = "AI failed to process this ticket"

\* Position of a collaborator call in the order of the pipeline's steps.
Rank(e) ==
    CASE e.op = "GetTicket" -> 1
      [] e.op = "UpdateTicketStatus" /\ e.arg[2] = StatusInProgress -> 2
      [] e.op = "CheckForkExists" -> 3
      [] e.op = "ForkRepository" -> 4
      [] e.op = "CloneRepository" -> 5
      [] e.op = "SwitchToTargetBranch" -> 6
      [] e.op = "CreateBranch" -> 7
      [] e.op = "GenerateDocumentation" -> 8
      [] e.op = "GenerateCode" -> 9
      [] e.op = "CommitChanges" -> 10
      [] e.op = "PushChanges" -> 11
      [] e.op = "CreatePullRequest" -> 12
      [] OTHER -> 13

\* Position of the hard step a failure message belongs to (ticket fetch and
\* repository resolution: 1 and 2; the readiness loop follows the fork).
FailRank(msg) ==
    CASE msg = "Failed to get ticket details" -> 1
      [] msg = "No components found on ticket" -> 1
      [] msg = "No repository mapping found for component" -> 1
      [] msg = "Failed to extract repo info" -> 2
      [] msg = "Failed to check if fork exists" -> 3
      [] msg = "Failed to create fork" -> 4
      [] msg = ForkNotReady -> 4
      [] msg = "Failed to clone repository" -> 5
      [] msg = "Failed to switch to target branch" -> 6
      [] msg = "Failed to create branch" -> 7
      [] msg = "Failed to generate code changes" -> 9
      [] msg = "Failed to commit changes" -> 10
      [] msg = "Failed to push changes" -> 11
      [] msg = "Failed to create pull request" -> 12
      [] OTHER -> 0

\* The calls of a run without its failure comments.
StepCalls(r) == SelectSeq(calls[r], LAMBDA e : ~IsFailureComment(e))

\* C12: when a hard step of ProcessTicket fails, no later pipeline step is
\* invoked, ProcessTicket returns an error, and exactly one failure comment
\* is posted on the ticket, or none when error comments are disabled.
C12_HardFailureAbortsAndReportsOnce ==
    \A r \in Runs :
        (ppc[r] = "done" /\ result[r] # Success) =>
            LET steps == StepCalls(r)
                comments == SelectSeq(calls[r], IsFailureComment)
            IN /\ result[r].err
               /\ FailRank(result[r].msg) > 0
               /\ Rank(steps[Len(steps)]) = FailRank(result[r].msg)
               /\ \A i \in DOMAIN steps : Rank(steps[i]) <= FailRank(result[r].msg)
               /\ result[r].msg # ForkNotReady => attempt[r] = 0
               /\ IF disableErrorComments
                  THEN comments = <<>>
                  ELSE /\ comments = <<FailureComment(r, result[r].msg)>>
                       /\ calls[r][Len(calls[r])] = FailureComment(r, result[r].msg)

\* With error comments enabled a run failed at the push, after the commit,
\* and posted its one failure comment.
C12_Witness ==
    \E r \in Runs :
        /\ ppc[r] = "done"
        /\ ~disableErrorComments
        /\ result[r] = Failure("Failed to push changes")
        /\ "CommitChanges" \in Ops(r)
        /\ calls[r][Len(calls[r])] = FailureComment(r, "Failed to push changes")

\* Position of a call in the pipeline order, the three calls of the ticket
\* post-processing included.
StepRank(e) ==
    CASE Rank(e) < 13 -> Rank(e)
      [] e.op = "UpdateTicketFieldByName" -> 13
      [] e.op = "AddComment" -> 14
      [] e.op = "UpdateTicketStatus" -> 15
      [] OTHER -> 16

\* The positions every run passes: all but the fork creation, made only when
\* there is no fork, and the field update, made only when a field is
\* configured.
AlwaysInvoked(k) == k # 4 /\ (k = 13 => prFieldName # "")

\* C24: the collaborator calls of a ProcessTicket run follow the pipeline
\* order (ticket, in-progress status, fork, clone, target branch, working
\* branch, code generation, commit, push, pull request, post-processing),
\* each at most once and none skipped, and after a hard step has failed no
\* further step is invoked.
C24_CallsFormPrefixOfPipelineOrder ==
    \A r \in Runs :
        LET steps == StepCalls(r)
            ranks == {StepRank(steps[i]) : i \in DOMAIN steps}
        IN /\ \A i, j \in DOMAIN steps :
                 i < j => StepRank(steps[i]) < StepRank(steps[j])
           /\ \A k \in ranks : k <= 15
           /\ \A k \in ranks : \A h \in 1..(k - 1) : AlwaysInvoked(h) => h \in ranks
           /\ result[r].err =>
                 /\ ppc[r] = "done"
                 /\ \A k \in ranks : k <= FailRank(result[r].msg)
           /\ (ppc[r] \notin {"idle", "done"}) => result[r] = NoResult

\* A run that had to create the fork went through every step and succeeded.
C24_Witness ==
    \E r \in Runs :
        /\ ppc[r] = "done"
        /\ result[r] = Success
        /\ {StepRank(StepCalls(r)[i]) : i \in DOMAIN StepCalls(r)} = 1..15

\* The step of run r from position at appends one call of op, goes to
\* position next and leaves the run with the result res.
StepsTo(r, at, op, next, res) ==
    (ppc[r] = at /\ ppc'[r] # at) =>
        /\ ppc'[r] = next
        /\ result'[r] = res
        /\ Len(calls'[r]) = Len(calls[r]) + 1
        /\ SubSeq(calls'[r], 1, Len(calls[r])) = calls[r]
        /\ calls'[r][Len(calls'[r])].op = op

\* Whatever a best-effort call returns, the run takes the same next step
\* with the same result.
BestEffortOutcomeIsIgnored ==
    \A r \in Runs :
        /\ (ppc[r] = "statusInProgress" /\ ~ExtractRepoInfo(repoURL[r]).err) =>
              StepsTo(r, "statusInProgress", "UpdateTicketStatus", "checkFork", NoResult)
        /\ StepsTo(r, "prField", "UpdateTicketFieldByName", "prComment", NoResult)
        /\ StepsTo(r, "prComment", "AddComment", "statusInReview", NoResult)
        /\ StepsTo(r, "statusInReview", "UpdateTicketStatus", "done", Success)

\* A run whose pull request was created returns success, has posted no
\* failure comment, and has called nothing after the pull request but the
\* post-processing.
SuccessOncePRCreated ==
    \A r \in Runs :
        (ppc[r] = "done" /\ "CreatePullRequest" \in Ops(r)
           /\ result[r] # Failure("Failed to create pull request")) =>
            /\ result[r] = Success
            /\ \A i \in DOMAIN calls[r] : ~IsFailureComment(calls[r][i])
            /\ \A i \in DOMAIN calls[r] : StepRank(calls[r][i]) <= 15
            /\ {14, 15} \subseteq {StepRank(calls[r][i]) : i \in DOMAIN calls[r]}

\* C25: a failure of a best-effort side effect of ProcessTicket (in-progress
\* status, pull-request field, pull-request comment, in-review status)
\* changes neither the steps that follow nor the return value; once the pull
\* request exists the run returns success, with no failure comment and
\* nothing undone.
C25_BestEffortFailuresChangeNothing ==
    /\ []SuccessOncePRCreated
    /\ [][BestEffortOutcomeIsIgnored]_vars

\* The only run there was returned success although both of its status
\* updates failed: its ticket still has the status it had.
C25_Witness ==
    \E r \in Runs :
        /\ ppc[r] = "done"
        /\ result[r] = Success
        /\ jiraStatus[key[r]] = StatusTodo
        /\ \A q \in Runs \ {r} : ppc[q] = "idle"

\* The failures of ProcessTicket before its first status update.
EarlyFailures ==
    {"Failed to get ticket details", "No components found on ticket",
     "No repository mapping found for component"}

FailedEarly(r) == ppc[r] = "done" /\ result[r].err /\ result[r].msg \in EarlyFailures

\* A run that failed early has called nothing but GetTicket and its failure
\* comment.
EarlyFailureUpdatesNoStatus ==
    \A r \in Runs :
        FailedEarly(r) =>
            /\ "UpdateTicketStatus" \notin Ops(r)
            /\ \A i \in DOMAIN calls[r] :
                  calls[r][i].op = "GetTicket" \/ IsFailureComment(calls[r][i])

\* The start of a run and the step on which it fails early leave the status
\* of every ticket as it is: a ticket the scanner's query returned is
\* returned by it again.
EarlyFailureKeepsTicketInQuery ==
    \A r \in Runs :
        ((ppc[r] # "getTicket" /\ ppc'[r] = "getTicket")
           \/ (ppc[r] = "getTicket" /\ ppc'[r] = "done")) =>
            /\ jiraStatus' = jiraStatus
            /\ SearchTodo' = SearchTodo
            /\ (ppc'[r] = "done" => result'[r].msg \in EarlyFailures)

\* C26: a ProcessTicket run that fails on the ticket fetch, on a ticket
\* without components or on a missing repository mapping issues no status
\* update; the ticket keeps its status, so that the scanner's query returns
\* the ticket again in a later cycle.
C26_EarlyFailureLeavesTicketForNextScan ==
    /\ []EarlyFailureUpdatesNoStatus
    /\ [][EarlyFailureKeepsTicketInQuery]_vars

\* A run failed early, its ticket is still in the todo status, and a
\* second run for the same ticket is in flight.
C26_Witness ==
    \E r, q \in Runs :
        /\ FailedEarly(r)
        /\ key[r] \in SearchTodo
        /\ q # r
        /\ key[q] = key[r]
        /\ ppc[q] \notin {"idle", "done"}

\* Run r is between its dispatch and its return.
InFlight(r) == ppc[r] \notin {"idle", "done"}

\* A step of run r.
RunStep(r) ==
    \/ GetTicket(r) \/ UpdateStatusInProgress(r) \/ CheckForkExists(r)
    \/ ForkRepository(r) \/ PollFork(r) \/ CloneRepository(r)
    \/ SwitchToTargetBranch(r) \/ CreateBranch(r) \/ GenerateDocumentation(r)
    \/ GenerateCode(r) \/ CommitChanges(r) \/ PushChanges(r) \/ CreatePullRequest(r)
    \/ UpdateTicketFieldByName(r) \/ AddComment(r) \/ UpdateStatusInReview(r)

\* C33: two runs for the same ticket key, with the same working directory
\* and the same branch name, can be in flight at the same time: while a run
\* is in flight and its ticket still matches the query, a scan dispatches
\* the ticket again, and the new run and the old one both go on.
C33_SameTicketRunsCanOverlap ==
    \A a \in Runs : InFlight(a) =>
        /\ ENABLED RunStep(a)
        /\ \A b \in Runs \ {a} :
              /\ (~InFlight(b) /\ started < MaxRuns /\ key[a] \in SearchTodo)
                    => ENABLED StartRun(b, key[a])
              /\ (InFlight(b) /\ key[b] = key[a]) =>
                    RepoDir(a) = RepoDir(b) /\ BranchName(a) = BranchName(b)

\* Two runs for one ticket are in flight, each having cloned into the
\* working directory and created the branch.
C33_Witness ==
    \E a, b \in Runs :
        /\ a # b
        /\ key[a] = key[b]
        /\ InFlight(a) /\ InFlight(b)
        /\ \A r \in {a, b} :
              \E i, j \in DOMAIN calls[r] :
                  calls[r][i].op = "CloneRepository" /\ calls[r][j].op = "CreateBranch"

\* Run r returned an error after it had issued the in-progress update.
FailedAfterInProgress(r) ==
    /\ ppc[r] = "done"
    /\ result[r].err
    /\ "UpdateTicketStatus" \in Ops(r)

\* No scan dispatches the ticket k.
NeverDispatched(k) == \A b \in Runs : ~ENABLED StartRun(b, k)

\* The failure has issued no status update of its own.
FailureUpdatesNoStatus(r) ==
    /\ CountOp(calls[r], "UpdateTicketStatus") = 1
    /\ \A i \in DOMAIN calls[r] :
          IsStatusUpdate(calls[r][i]) => calls[r][i].arg[2] = StatusInProgress

\* C37 as stated: after the in-progress update was issued, a hard failure
\* issues no further status update; the ticket is left in the in-progress
\* status, the todo query does not return it and it is not dispatched again.
C37_FailedTicketStaysInProgress ==
    \A r \in Runs : FailedAfterInProgress(r) =>
        /\ FailureUpdatesNoStatus(r)
        /\ jiraStatus[key[r]] = StatusInProgress
        /\ key[r] \notin SearchTodo
        /\ NeverDispatched(key[r])

\* A ticket that has left the todo status does not come back to it, the
\* in-progress update of a run changes the status of its ticket to in
\* progress or not at all, and a run starts only for a ticket in the todo
\* status.
OutOfTodoForGood ==
    /\ \A k \in Keys : jiraStatus[k] # StatusTodo => jiraStatus'[k] # StatusTodo
    /\ \A r \in Runs :
          /\ (ppc[r] = "statusInProgress" /\ ppc'[r] # "statusInProgress") =>
                \/ jiraStatus' = jiraStatus
                \/ jiraStatus' = [jiraStatus EXCEPT ![key[r]] = StatusInProgress]
          /\ (ppc[r] # "getTicket" /\ ppc'[r] = "getTicket") =>
                jiraStatus[key'[r]] = StatusTodo

\* A failed run has issued the in-progress update and no other; when an
\* update has taken the ticket out of the todo status, the query does not
\* return it and it is not dispatched.
FailedTicketOutOfTodoStaysOut ==
    \A r \in Runs : FailedAfterInProgress(r) =>
        /\ FailureUpdatesNoStatus(r)
        /\ jiraStatus[key[r]] # StatusTodo =>
              /\ jiraStatus[key[r]] \in {StatusInProgress, FinalStatus}
              /\ key[r] \notin SearchTodo
              /\ NeverDispatched(key[r])

\* C37, amended: a hard failure after the in-progress update issues no
\* further status update; if an in-progress update of the ticket took effect,
\* the ticket stays out of the todo status (in progress, or in review when
\* another run of the same ticket got that far), the query does not return
\* it and it is never dispatched again.
C37_FailedTicketStaysOutOfTodoOnceUpdated ==
    []FailedTicketOutOfTodoStaysOut /\ [][OutOfTodoForGood]_vars

\* A run failed on a hard step with its ticket in progress, while a free
\* goroutine and a further dispatch were left.
C37_Witness ==
    \E r \in Runs :
        /\ FailedAfterInProgress(r)
        /\ jiraStatus[key[r]] = StatusInProgress
        /\ started < MaxRuns
        /\ \E b \in Runs : ppc[b] \in {"idle", "done"}
        /\ \E i \in DOMAIN calls[r] : calls[r][i].op = "CloneRepository"

\* The runs that have invoked the creation of a pull request for ticket k.
RunsThatCreatedPR(k) == {r \in Runs : key[r] = k /\ "CreatePullRequest" \in Ops(r)}

\* C38: over all scan cycles, and whatever the outcome of the best-effort
\* status updates, the creation of a pull request is invoked at most once
\* for a ticket key.
C38_OnePullRequestPerTicket ==
    \A k \in Keys :
        /\ Cardinality(RunsThatCreatedPR(k)) <= 1
        /\ \A r \in RunsThatCreatedPR(k) : CountOp(calls[r], "CreatePullRequest") = 1

(***************************************************************************)
(* Properties of ProcessPRReviewFeedback (checked under SpecFeedback)      *)
(***************************************************************************)

\* The operations a feedback run has called.
FbOps(r) == {fbCalls[r][i] : i \in DOMAIN fbCalls[r]}

\* The run has fetched the pull request and computed its watermark.
FbReached(r) == "ListPRComments" \in FbOps(r)

\* Clone, code generation, commit, push and the watermark comment.
ActOps == {"CloneRepository", "GenerateCode", "CommitChanges", "PushChanges", "AddPRComment"}

\* The fetched items that are not the bot's and are newer than the watermark
\* the run uses.
NewIdx(r) ==
    {i \in 1..fbFetched[r].n :
        prItems[i].author # BotUsername /\ prItems[i].at > fbWm[r]}

\* Among them is a changes-requested review or a comment.
HasNewWork(r) ==
    \E i \in NewIdx(r) : prItems[i].kind \in {"CHANGES_REQUESTED", "comment"}

\* C13: ProcessPRReviewFeedback invokes clone, code generation, commit, push
\* and the watermark comment only if the new (filtered) set holds a
\* changes-requested review or a comment, and then it does go on to them (all
\* five are invoked by a run that succeeds); otherwise, as when nothing is
\* newer than the watermark or only approvals are new, it returns success
\* having invoked none of them.
C13_ActsIffNewChangesRequestedOrComment ==
    \A r \in FbRuns :
        /\ FbOps(r) \cap ActOps # {} => (FbReached(r) /\ HasNewWork(r))
        /\ (FbReached(r) /\ ~HasNewWork(r)) =>
              /\ fpc[r] = "done"
              /\ fbResult[r] = "ok"
              /\ FbOps(r) \cap ActOps = {}
        /\ (FbReached(r) /\ HasNewWork(r) /\ fbFetched[r].cloneURL # "") =>
              (fpc[r] = "fixes" \/ "CloneRepository" \in FbOps(r))
        /\ (FbReached(r) /\ HasNewWork(r) /\ fpc[r] = "done" /\ fbResult[r] = "ok") =>
              ActOps \subseteq FbOps(r)

\* A run found only a new approval and returned success without acting.
C13_Witness ==
    \E r \in FbRuns :
        /\ FbReached(r)
        /\ fpc[r] = "done"
        /\ fbResult[r] = "ok"
        /\ FbOps(r) \cap ActOps = {}
        /\ \E i \in NewIdx(r) : prItems[i].kind = "APPROVED"

\* The items of a sequence.
Range(seq) == {seq[i] : i \in DOMAIN seq}

\* C14: the new reviews and comments are exactly the fetched reviews and
\* comments whose author is not the bot account and whose timestamp is
\* strictly after the watermark; a bot-authored item is excluded even when
\* it is newer than the watermark, and an item whose timestamp equals the
\* watermark is excluded.
C14_NewSetIsNonBotAndStrictlyAfterWatermark ==
    \A r \in FbRuns :
        FbReached(r) =>
            LET fr == fbFiltered[r].reviews
                fc == fbFiltered[r].comments
            IN /\ Range(fr) \cup Range(fc) = {prItems[i] : i \in NewIdx(r)}
               /\ Len(fr) + Len(fc) = Cardinality(NewIdx(r))
               /\ \A e \in Range(fr) : e.kind # "comment"
               /\ \A e \in Range(fc) : e.kind = "comment"
               /\ \A e \in Range(fr) \cup Range(fc) :
                    e.author # BotUsername /\ e.at # fbWm[r] /\ e.at > fbWm[r]

\* A run with a watermark fetched a bot-authored item newer than the
\* watermark and a reviewer's item stamped exactly at the watermark, and kept
\* neither.
C14_Witness ==
    \E r \in FbRuns :
        /\ FbReached(r)
        /\ fbWm[r] # ZeroTime
        /\ \E i, j \in 1..fbFetched[r].n :
             /\ prItems[i].author = BotUsername
             /\ prItems[i].at > fbWm[r]
             /\ prItems[i] \notin Range(fbFiltered[r].reviews) \cup Range(fbFiltered[r].comments)
             /\ prItems[j].author = Reviewer
             /\ prItems[j].at = fbWm[r]
             /\ prItems[j] \notin Range(fbFiltered[r].reviews) \cup Range(fbFiltered[r].comments)

\* The marker comments the feedback runs have written.
IsMarker(e) == e.author = BotUsername /\ e.kind = "comment" /\ e.mark # NoMark

\* C15: for every watermark marker W written on the pull request, every
\* non-bot review or comment with a timestamp at or before W was part of the
\* feedback fetched by a run whose code generation, commit and push
\* succeeded.
C15_WatermarkCoversOnlyProcessedFeedback ==
    \A i \in DOMAIN prItems :
        IsMarker(prItems[i]) =>
            \A j \in DOMAIN prItems :
                (prItems[j].author # BotUsername /\ prItems[j].at <= prItems[i].mark)
                    => j <= fbProcessed

\* C16: the watermark a run uses for filtering is never earlier than the
\* watermark used by any earlier run on the same pull request.
C16_WatermarkNeverDecreases ==
    [][\A r \in FbRuns :
          (fpc[r] = "watermark" /\ fpc'[r] # "watermark") => fbWm'[r] >= fbMaxUsed]_vars

\* C17: after a call that succeeded and recorded its watermark, a further
\* call with no additional non-bot review or comment invokes no clone, code
\* generation, commit, push or pull-request comment and returns success.
C17_SecondCallWithoutNewFeedbackDoesNothing ==
    \A r \in FbRuns :
        (/\ fpc[r] = "done"
         /\ FbReached(r)
         /\ fbBase[r].any
         /\ \A i \in (fbBase[r].n + 1)..fbFetched[r].n : prItems[i].author = BotUsername)
            => /\ FbOps(r) \cap ActOps = {}
               /\ fbResult[r] = "ok"

\* The steps of a feedback run whose failure is a hard error.
FbHardOps == {"GetPRDetails"} \cup {FixOps[i] : i \in DOMAIN FixOps}

\* The run ended with an error returned by its last call, a hard step.
FbHardFailure(r) ==
    /\ fpc[r] = "done"
    /\ fbResult[r] = "err"
    /\ fbCalls[r] # <<>>
    /\ fbCalls[r][Len(fbCalls[r])] \in FbHardOps

\* C21: a feedback run that ends on a hard error (pull-request details,
\* clone, branch switch, pull, code generation, commit or push) has, unless
\* error comments are disabled, reported the failure in a comment on the
\* ticket.
C21_FeedbackHardFailureIsReported ==
    \A r \in FbRuns :
        (FbHardFailure(r) /\ ~disableErrorComments) => "AddComment" \in FbOps(r)

\* C22: when the pull-request field of the ticket is absent or empty, the run
\* returns success right after reading it: no pull-request details are
\* fetched, nothing is cloned or generated, and no comment is posted.
C22_NoPRURLIsSuccessWithNothingDone ==
    \A r \in FbRuns :
        (fbPRURL[r].read /\ fbPRURL[r].url = <<>>) =>
            /\ fpc[r] = "done"
            /\ fbResult[r] = "ok"
            /\ fbCalls[r] = <<"GetTicket", "GetFieldIDByName", "GetTicketWithExpandedFields">>

\* A run read an empty pull-request field and returned.
C22_Witness ==
    \E r \in FbRuns :
        fbPRURL[r].read /\ fbPRURL[r].url = <<>> /\ fpc[r] = "done"

\* The marker timestamps in the comments written by the bot account.
BotMarks(items) ==
    {items[i].mark : i \in {j \in DOMAIN items :
        items[j].kind = "comment" /\ items[j].author = BotUsername /\ items[j].mark # NoMark}}

\* The marker text is in a comment that somebody else wrote.
IsForged(e) == e.kind = "comment" /\ e.author # BotUsername /\ e.mark # NoMark

\* C27: the watermark that getLastProcessingTimestamp computes from the
\* comments of the pull request is the latest timestamp of the marker
\* comments written by the bot account, the zero time when there is none; a
\* comment of another author with the marker text does not count.
C27_WatermarkIsLatestBotMarker ==
    [][\A r \in FbRuns :
          (fpc[r] = "watermark" /\ fpc'[r] # "watermark" /\ fbListed'[r]) =>
              /\ BotMarks(prItems) = {} => fbWm'[r] = ZeroTime
              /\ BotMarks(prItems) # {} =>
                    /\ fbWm'[r] \in BotMarks(prItems)
                    /\ \A m \in BotMarks(prItems) : fbWm'[r] >= m]_vars

\* A run computed its watermark from a marker of the bot while a reviewer's
\* comment with a later marker text was on the pull request.
C27_Witness ==
    \E r \in FbRuns :
        /\ fpc[r] \in {"fixes", "done"}
        /\ fbListed[r]
        /\ fbWm[r] # ZeroTime
        /\ \E i \in 1..fbFetched[r].n : IsForged(prItems[i]) /\ prItems[i].mark > fbWm[r]

\* How often e occurs in a sequence.
Occurrences(seq, e) == Cardinality({i \in DOMAIN seq : seq[i] = e})

\* The reviews and comments in the feedback of run r, and the entries for e.
FeedbackItems(r) == [i \in DOMAIN fbFeedback[r] |-> fbFeedback[r][i].item]
FeedbackEntriesOf(r, e) == {i \in DOMAIN fbFeedback[r] : fbFeedback[r][i].item = e}

\* Run r has collected its feedback and is applying it or has applied it.
HasCollected(r) == fpc[r] \in {"fixes", "mark"}

\* Every entry for e has the status that the watermark of run r gives it.
TaggedByWatermark(r, e) ==
    \A i \in FeedbackEntriesOf(r, e) :
        fbFeedback[r][i].status = IF After(e.at, fbWm[r]) THEN "NEW" ELSE "HANDLED"

\* C28 as stated: the feedback contains every review and every comment of
\* the fetched pull request exactly once, NEW when its timestamp is after the
\* watermark of the run and HANDLED otherwise.
C28_DigestHasEveryReviewAndComment ==
    \A r \in FbRuns : HasCollected(r) =>
        \A k \in 1..fbFetched[r].n :
            /\ Occurrences(FeedbackItems(r), prItems[k]) = Occurrences(FbItems(r), prItems[k])
            /\ TaggedByWatermark(r, prItems[k])

\* C28, amended: the feedback contains every review and every comment that
\* the bot account did not write exactly once, NEW when its timestamp is
\* after the watermark of the run and HANDLED otherwise, and contains no
\* review or comment written by the bot account.
C28_DigestHasEveryReviewAndCommentOfOthers ==
    \A r \in FbRuns : HasCollected(r) =>
        /\ \A k \in 1..fbFetched[r].n :
              IF prItems[k].author = BotUsername
              THEN Occurrences(FeedbackItems(r), prItems[k]) = 0
              ELSE /\ Occurrences(FeedbackItems(r), prItems[k])
                        = Occurrences(FbItems(r), prItems[k])
                   /\ TaggedByWatermark(r, prItems[k])
        /\ \A i \in DOMAIN fbFeedback[r] :
              \E k \in 1..fbFetched[r].n : prItems[k] = fbFeedback[r][i].item

\* A run collected a handled comment, a new one, and left out a comment of
\* the bot account.
C28_Witness ==
    \E r \in FbRuns :
        /\ HasCollected(r)
        /\ \E i, j \in DOMAIN fbFeedback[r] :
              /\ fbFeedback[r][i].status = "HANDLED"
              /\ fbFeedback[r][j].status = "NEW"
        /\ \E k \in 1..fbFetched[r].n : prItems[k].author = BotUsername

\* The operations of the collaborators that ProcessPRReviewFeedback calls.
FeedbackRunOps ==
    {"GetTicket", "GetFieldIDByName", "GetTicketWithExpandedFields", "GetPRDetails",
     "ListPRComments", "AddPRComment"} \cup {FixOps[i] : i \in DOMAIN FixOps}

\* C29: a feedback run pushes only to the head branch of the pull request in
\* the fork, and never creates a pull request, updates the status of the
\* ticket or creates a fork.
C29_FeedbackRunOnlyPushesToPRBranch ==
    /\ \A p \in fbPushed : p = [url |-> ForkCloneURL, branch |-> PRHeadRef]
    /\ \A r \in FbRuns :
          /\ FbOps(r) \subseteq FeedbackRunOps
          /\ FbOps(r) \cap {"CreatePullRequest", "UpdateTicketStatus", "ForkRepository",
                            "CreateBranch"} = {}

\* A run has pushed its fixes and returned.
C29_Witness ==
    /\ fbPushed # {}
    /\ \E r \in FbRuns :
          fpc[r] = "done" /\ fbResult[r] = "ok" /\ "PushChanges" \in FbOps(r)

\* The marker comments of the bot account on the pull request.
MarkerComments(items) ==
    {i \in DOMAIN items :
        items[i].kind = "comment" /\ items[i].author = BotUsername /\ items[i].mark # NoMark}

\* The calls of a run that ends with the marker comment.
CallsBeforeMarker ==
    <<"CloneRepository", "SwitchToBranch", "PullChanges", "GenerateCode",
      "CommitChanges", "PushChanges">>

\* A run posts the marker comment at most once, directly after clone, switch,
\* pull, code generation, commit and push, none of which failed; a run that
\* failed or had nothing to do has not posted it.
MarkerOnlyAfterSuccess ==
    \A r \in FbRuns :
        /\ Occurrences(fbCalls[r], "AddPRComment") <= 1
        /\ "AddPRComment" \in FbOps(r) =>
              /\ Len(fbCalls[r]) > Len(CallsBeforeMarker)
              /\ SubSeq(fbCalls[r], Len(fbCalls[r]) - Len(CallsBeforeMarker), Len(fbCalls[r]))
                    = CallsBeforeMarker \o <<"AddPRComment">>
              /\ fbResult[r] = "ok"
        /\ (fpc[r] = "done" /\ fbResult[r] = "err") => "AddPRComment" \notin FbOps(r)
        /\ (fpc[r] = "done" /\ "PushChanges" \notin FbOps(r)) => "AddPRComment" \notin FbOps(r)

\* The pull request gets a marker comment only in the step in which a run
\* posts it, and one at a time.
MarkerAppendedOnlyByMarkStep ==
    MarkerComments(prItems') # MarkerComments(prItems) =>
        /\ Cardinality(MarkerComments(prItems')) = Cardinality(MarkerComments(prItems)) + 1
        /\ \E r \in FbRuns :
              /\ fpc[r] = "mark" /\ fpc'[r] = "done"
              /\ fbResult'[r] = "ok"
              /\ fbCalls'[r] = Append(fbCalls[r], "AddPRComment")

\* C30: the marker comment is appended only when a run succeeded: at most one
\* per run, and only after clone, switch, pull, code generation, commit and
\* push have all succeeded; a run that fails or has nothing to do appends none.
C30_MarkerOnlyOnSuccess ==
    []MarkerOnlyAfterSuccess /\ [][MarkerAppendedOnlyByMarkStep]_vars

\* A run has appended its marker comment, and a later run on the same pull
\* request failed without appending one.
C30_Witness ==
    /\ Cardinality(MarkerComments(prItems)) = 1
    /\ \E r \in FbRuns :
          /\ fpc[r] = "done" /\ fbResult[r] = "err"
          /\ fbBase[r].any
          /\ "GenerateCode" \in FbOps(r)

\* The step in which run r fails to post its marker comment.
MarkerPostFails(r) ==
    /\ fpc[r] = "mark" /\ fpc'[r] = "done"
    /\ prItems' = prItems

\* Run r then returns success and the watermark stored on the pull request
\* is what it was.
MarkerFailureIsNotFatal ==
    \A r \in FbRuns : MarkerPostFails(r) =>
        /\ fbResult'[r] = "ok"
        /\ GetLastProcessingTimestamp(Comments(prItems'))
              = GetLastProcessingTimestamp(Comments(prItems))

\* The feedback that the run recorded in fbUnmarked applied and pushed.
UnmarkedFeedback ==
    {i \in 1..fbUnmarked.n :
        prItems[i].author # BotUsername /\ prItems[i].at > fbUnmarked.wm}

\* A later run that has computed its watermark treats that feedback as new
\* and goes on to apply it.
UnmarkedFeedbackIsNewAgain ==
    \A r \in FbRuns :
        (fbUnmarked.any /\ FbReached(r)) =>
            /\ UnmarkedFeedback \subseteq NewIdx(r)
            /\ fbFetched[r].cloneURL # "" =>
                  (fpc[r] = "fixes" \/ "CloneRepository" \in FbOps(r))

\* C31: when the marker comment cannot be posted after the fixes were pushed,
\* the run still returns success, the stored watermark is unchanged, and the
\* next run treats the same feedback as new and processes it again.
C31_MarkerFailureLeavesFeedbackNew ==
    []UnmarkedFeedbackIsNewAgain /\ [][MarkerFailureIsNotFatal]_vars

\* The fetched reviews and comments that the bot account did not write.
OthersIdx(r) == {i \in 1..fbFetched[r].n : prItems[i].author # BotUsername}

\* The comments could not be listed in run r.
ListingFailed(r) == FbReached(r) /\ ~fbListed[r]

\* C39: when the comments of the pull request cannot be listed, the run does
\* not abort: its watermark is the zero time, and every review and comment
\* that the bot account did not write is new.
C39_ListingFailureMeansZeroWatermark ==
    \A r \in FbRuns : ListingFailed(r) =>
        /\ fbWm[r] = ZeroTime
        /\ NewIdx(r) = OthersIdx(r)
        /\ Range(fbFiltered[r].reviews) \cup Range(fbFiltered[r].comments)
              = {prItems[i] : i \in OthersIdx(r)}
        /\ Len(fbFiltered[r].reviews) + Len(fbFiltered[r].comments)
              = Cardinality(OthersIdx(r))
        /\ (HasNewWork(r) /\ fbFetched[r].cloneURL # "") =>
              (fpc[r] = "fixes" \/ "CloneRepository" \in FbOps(r))
        /\ (fpc[r] = "done" /\ fbCalls[r][Len(fbCalls[r])] = "ListPRComments") =>
              \/ fbResult[r] = "ok" /\ ~HasNewWork(r)
              \/ fbResult[r] = "err" /\ fbFetched[r].cloneURL = ""

\* The comments could not be listed, the pull request carries a marker of
\* the bot, and the run goes on to apply a comment older than that marker.
C39_Witness ==
    \E r \in FbRuns :
        /\ ListingFailed(r)
        /\ fpc[r] = "fixes"
        /\ \E i, j \in 1..fbFetched[r].n :
              /\ IsMarker(prItems[i])
              /\ j \in NewIdx(r)
              /\ prItems[j].at <= prItems[i].mark


(***************************************************************************)
(* Properties of the scanner (checked under SpecScanner)                   *)
(***************************************************************************)

\* Loop goroutines that have not returned.
LiveLoops == {l \in 1..Len(loops) : loops[l].pc # "exited"}

\* Tickers that were created and not stopped.
Tickers == {l \in 1..Len(loops) : loops[l].ticker = "running"}

\* No call of Start or Stop is in progress.
CallersIdle == \A c \in Callers : cpc[c] = "idle"

\* C18: after any sequence of Start calls with no Stop call, made one after
\* the other, the scanner is running with exactly one scan-loop goroutine,
\* and that goroutine owns the only ticker (one ticker as soon as the
\* goroutine has executed its first statement, never two).
C18_StartWhileRunningIsNoOp ==
    (~overlapped /\ stopCalls = 0 /\ startCalls >= 1 /\ CallersIdle) =>
        /\ isRunning
        /\ Len(loops) = 1
        /\ LiveLoops = {1}
        /\ Tickers = IF loops[1].pc = "new" THEN {} ELSE {1}

\* Two Start calls in a row, no Stop, the loop running with its ticker.
C18_Witness ==
    /\ ~overlapped
    /\ stopCalls = 0
    /\ startCalls >= 2
    /\ CallersIdle
    /\ loops[1].ticker = "running"

\* C19: over any sequence of Start and Stop calls made one after the other,
\* the stop channel is closed at most once, only by a Stop that found the
\* scanner running, and never when it is already closed.
C19_StopChannelClosedOnceAndOnlyWhileRunning ==
    ~overlapped =>
        /\ Len(closeLog) <= 1
        /\ \A n \in 1..Len(closeLog) :
              closeLog[n].running /\ closeLog[n].chan = "open"
        /\ ~panicked

\* The task the loop l is about to dispatch.
NextTask(l) == NewTask(loops[l].issues[loops[l].i], loops[l].cycle, loops[l].i)

\* No step of a loop, and no task, has to wait for a task.
NothingWaitsForATask ==
    ~panicked =>
        /\ \A l \in 1..Len(loops) :
              /\ loops[l].pc = "dispatch" => ENABLED LoopDispatch(l)
              /\ loops[l].pc = "select" => ENABLED LoopSelectTick(l)
              /\ loops[l].pc = "scan" => ENABLED LoopSearch(l)
        /\ \A t \in tasks, err \in BOOLEAN : ENABLED TaskReturns(t, err)

\* Live tasks of the scan a loop is in belong to issues it has passed.
DispatchedSoFar ==
    \A l \in 1..Len(loops) :
        loops[l].pc = "dispatch" =>
            \A t \in tasks :
                t.cycle = loops[l].cycle =>
                    /\ t.idx < loops[l].i
                    /\ t.key = loops[l].issues[t.idx]

\* Each step of a scan dispatches the next issue, to a new task, and goes to
\* the one after it; tasks start in no other way, and a task ends alone.
OneTaskPerIssue ==
    /\ \A l \in 1..Len(loops) :
          (loops[l].pc = "dispatch" /\ loops'[l] # loops[l]) =>
              IF loops[l].i <= Len(loops[l].issues)
              THEN /\ NextTask(l) \notin tasks
                   /\ tasks' = tasks \cup {NextTask(l)}
                   /\ loops'[l].pc = "dispatch"
                   /\ loops'[l].i = loops[l].i + 1
                   /\ loops'[l].issues = loops[l].issues
                   /\ loops'[l].cycle = loops[l].cycle
              ELSE /\ tasks' = tasks
                   /\ loops'[l].pc = "select"
    /\ (tasks' \ tasks # {}) =>
          \E l \in 1..Len(loops) :
              loops[l].pc = "dispatch" /\ loops'[l] # loops[l]
    /\ (tasks \ tasks' # {}) =>
          /\ tasks' \subseteq tasks
          /\ Cardinality(tasks \ tasks') = 1
          /\ loops' = loops

\* C20: in a scan every returned ticket is dispatched exactly once, to a task
\* of its own; the loop waits for no task, and a task that fails or never
\* ends blocks neither another task nor the next scan.
C20_EachTicketDispatchedOnceAndNeverAwaited ==
    /\ [](NothingWaitsForATask /\ DispatchedSoFar)
    /\ [][OneTaskPerIssue]_vars

\* A later scan dispatches its second ticket while a task of an earlier scan
\* and the task of its own first ticket have not ended.
C20_Witness ==
    \E l \in 1..Len(loops) :
        /\ loops[l].pc = "dispatch"
        /\ loops[l].i = 2
        /\ \E t \in tasks : t.cycle < loops[l].cycle
        /\ \E t \in tasks : t.cycle = loops[l].cycle /\ t.idx = 1

\* A step of a Stop call.
StopStep == stopCalls' # stopCalls \/ closeLog' # closeLog

\* Stop neither ends a task nor waits for one.
StopLeavesTasksAlone ==
    /\ StopStep => tasks' = tasks
    /\ \A c \in Callers : (cpc[c] = "stop" /\ ~panicked) => ENABLED StopClose(c)

\* Every task in flight can go on to its end.
TasksRunOn == \A t \in tasks, err \in BOOLEAN : ENABLED TaskReturns(t, err)

\* C32: Stop does not cancel, interrupt or wait for the tasks that were
\* dispatched: every task in flight when Stop is called goes on and runs to
\* completion.
C32_StopLeavesTasksRunning ==
    []TasksRunOn /\ [][StopLeavesTasksAlone]_vars

\* C34: Start and Stop are atomic when they are called from different
\* goroutines: whatever the interleaving, Start calls alone start at most
\* one scan loop, and the Stop calls that follow one Start close the stop
\* channel at most once.
C34_ConcurrentStartStopIsAtomic ==
    /\ stopCalls = 0 => Len(loops) <= 1
    /\ startCalls <= 1 => Len(closeLog) <= 1

\* The l-th loop goroutine has returned and its deferred ticker.Stop() has run.
LoopEnded(l) ==
    l <= Len(loops) /\ loops[l].pc = "exited" /\ loops[l].ticker = "stopped"

\* A Stop call found the scanner running, with the l-th loop started.
StoppedWhileRunning(l) ==
    /\ l <= Len(loops)
    /\ \E c \in Callers : cpc[c] = "stop"

\* C35: after Stop is called on a running scanner, the scan-loop goroutine
\* eventually returns, under fair scheduling, and its ticker is stopped.
C35_LoopEndsAfterStop ==
    \A l \in 1..MaxScCalls : StoppedWhileRunning(l) ~> LoopEnded(l)

\* The l-th loop goroutine waits in its select only for a tick: it scans at
\* the next tick and does not return.
KeepsScanning(l) ==
    /\ loops[l].pc # "exited"
    /\ (loops[l].pc = "select" /\ ~panicked) =>
          ENABLED LoopSelectTick(l) /\ ~ENABLED LoopSelectStop(l)

\* C36: whenever isRunning is true there is a scan-loop goroutine that scans
\* at every tick until Stop is called, also when the scanner was started
\* again after a Stop.
C36_RunningScannerHasALoopThatKeepsScanning ==
    (isRunning /\ \A c \in Callers : cpc[c] # "stop") =>
        \E l \in 1..Len(loops) : KeepsScanning(l)


(***************************************************************************)
(* Properties of ExtractRepoInfo (checked under SpecExtract)               *)
(***************************************************************************)

\* C23: for every owner O and repository R, the URLs
\* https://github.com/O/R.git, https://github.com/O/R and
\* git@github.com:O/R.git all give the pair (O, R), and a URL that starts
\* with neither recognized prefix gives an error.
C23_ExtractRepoInfoAgreesOnAllShapes ==
    exOut.called =>
        IF exIn.shape \in RecognizedShapes
        THEN ~exOut.err /\ exOut.owner = exIn.owner /\ exOut.repo = exIn.repo
        ELSE exOut.err

\* The call has returned for the URL without ".git" of a repository whose
\* name ends in "git".
C23_Witness ==
    /\ exOut.called
    /\ exIn.shape = "https"
    /\ exIn.repo = <<"t", "g", "i", "t">>

====
